---- MODULE Spec2Model ----
(***************************************************************************)
(* Model of the company lookup and reconciliation code of                  *)
(* src/company_query_compare.py and the helpers it calls in                *)
(* src/utils/llm.py and src/utils/google_search_api.py.                    *)
(*                                                                         *)
(* A Python str is a sequence of one-character strings, so that lower(),   *)
(* strip(), "in", slicing and the regular expressions act on characters.   *)
(* A Python value is a record [t, s, m]: t its type, s its characters (str,*)
(* int, bool), m its entries (dict, list).  A Python dict is the sequence  *)
(* of its [k, v] entries in insertion order.                               *)
(***************************************************************************)
EXTENDS Integers, Sequences, FiniteSets, TLC

VARIABLES
    \* diff_dicts: position, arguments, returned mapping
    dpc, a, b, out,
    \* _guess_contact_page_url: position, google_search's items, returned URL
    ppc, items, picked,
    \* the arguments of a lookup
    company, country,
    \* query_contact: position; what the search provider holds for the contact
    \* query and what the two google_search calls returned; the outcomes of
    \* the two chat_once calls; the locals context and data; the dict
    \* llm_extract_contact returned; the returned record; the calls made
    cpc, web, ctx_items, pick_items, reply1, reply2, context, data, fallback,
    contact, trace,
    \* main: position, and its locals merged_single, composite, differences
    mpc, merged_single, composite, differences,
    \* one extraction (query_contact, query_management or query_composite):
    \* position, which of the three, what the search returned, the outcomes
    \* of its chat_once calls, the context built, what _llm_json returned,
    \* the returned record, the calls made
    xpc, profile, xitems, xreply, xreply2, xcontext, xdata, xrecord, xcalls,
    \* one call of a Search Context Builder: position, which builder, its
    \* parameter n, what google_search returned (for the contact query, and
    \* for each management sub-query), what google_search_manager returned,
    \* the context built
    spc, builder, ncap, sresults, ssubs, managed, sctx,
    \* one lookup with its search provider: position, which operation, what
    \* the provider answers to every search request, the outcomes of the
    \* chat_once calls (contact, fallback, management or composite), and how
    \* the operation ended
    rpc, rop, rbody, rreply, rreply2, rreplym, rout,
    \* the workflow of main from step 2 on: position, its local selected, the
    \* list step 2 returned, the loop index and the local results of
    \* enhance_company_info_with_perplexity, and the outcomes of the two
    \* Perplexity calls made for each row
    wpc, selected, after_swf, widx, results, wcalls,
    \* one run of company_query_compare under a provider configuration:
    \* position, the state of the Azure OpenAI and of the Google search
    \* environment variables, which lookup was run, what the providers answered
    \* and how the lookup ended
    vpc, llm_env, search_env, vop, vbody, vreply, vreply2, vreplym, vout,
    \* one call of _unique_by_company: position, its argument items, the list
    \* it returns
    upc, uitems, uout,
    \* one call of enhance_companies_with_contact_pages: position, its
    \* argument companies, what scraping and extraction gave for each company,
    \* the list it returns
    gpc, gcompanies, gpages, gout,
    \* one process that runs several lookups: what the lru_cache of _get_client
    \* holds, and the lookups made so far with their inputs, the providers'
    \* responses and the record returned
    client, lookups

diffVars == <<dpc, a, b, out>>

pickVars == <<ppc, items, picked>>

argVars == <<company, country>>

contactVars ==
    <<cpc, web, ctx_items, pick_items, reply1, reply2, context, data, fallback,
      contact, trace>>

mainVars == <<mpc, merged_single, composite, differences>>

extractVars ==
    <<xpc, profile, xitems, xreply, xreply2, xcontext, xdata, xrecord, xcalls>>

searchVars == <<spc, builder, ncap, sresults, ssubs, managed, sctx>>

robustVars == <<rpc, rop, rbody, rreply, rreply2, rreplym, rout>>

batchVars == <<wpc, selected, after_swf, widx, results, wcalls>>

providerVars == <<vpc, llm_env, search_env, vop, vbody, vreply, vreply2, vreplym, vout>>

uniqueVars == <<upc, uitems, uout>>

pageVars == <<gpc, gcompanies, gpages, gout>>

sessionVars == <<client, lookups>>

vars ==
    <<diffVars, pickVars, argVars, contactVars, mainVars, extractVars,
      searchVars, robustVars, batchVars, providerVars, uniqueVars,
      pageVars, sessionVars>>

(***************************************************************************)
(* Bounds of the model.                                                    *)
(***************************************************************************)
\* number of record keys the Diff Engine's inputs range over
MaxDiffKeys == 2

\* number of results the search provider returns for one query, in the
\* specification of the picker
MaxItems == 2

\* number of results the search provider returns for the contact query, in
\* the specification of query_contact
MaxContactItems == 1

\* largest value of the builders' parameter n
MaxCap == 1

(***************************************************************************)
(* Characters and Python str operations.                                   *)
(***************************************************************************)
UpperChars == <<"A","B","C","D","E","F","G","H","I","J","K","L","M",
                "N","O","P","Q","R","S","T","U","V","W","X","Y","Z">>

LowerChars == <<"a","b","c","d","e","f","g","h","i","j","k","l","m",
                "n","o","p","q","r","s","t","u","v","w","x","y","z">>

DigitChars == <<"0","1","2","3","4","5","6","7","8","9">>

RangeOf(seq) == {seq[i] : i \in 1..Len(seq)}

UpperSet == RangeOf(UpperChars)

LowerSet == RangeOf(LowerChars)

DigitSet == RangeOf(DigitChars)

\* \w of Python's re on ASCII text
WordSet == UpperSet \cup LowerSet \cup DigitSet \cup {"_"}

\* \s of Python's re, and the characters str.split() and str.strip() drop
SpaceSet == {" ", "\n", "\t", "\r"}

\* str.lower() on one character
LowerChar(c) ==
    IF c \in UpperSet
    THEN LowerChars[CHOOSE i \in 1..Len(UpperChars) : UpperChars[i] = c]
    ELSE c

\* str.lower()
lower(s) == [i \in 1..Len(s) |-> LowerChar(s[i])]

\* s[i:j] with 1-based inclusive bounds; empty when i > j
Slice(s, i, j) == IF i > j THEN <<>> ELSE SubSeq(s, i, j)

\* sub in s
Contains(s, sub) ==
    \E i \in 1..(Len(s) - Len(sub) + 1) :
        \A j \in 1..Len(sub) : s[i + j - 1] = sub[j]

\* s.startswith(p)
StartsWith(s, p) ==
    /\ Len(p) <= Len(s)
    /\ \A j \in 1..Len(p) : s[j] = p[j]

\* s.strip(chars): drop the leading and trailing characters that are in chars
StripChars(s, chars) ==
    LET keep == {i \in 1..Len(s) : s[i] \notin chars}
    IN  IF keep = {} THEN <<>>
        ELSE LET lo == CHOOSE i \in keep : \A j \in keep : i <= j
                 hi == CHOOSE i \in keep : \A j \in keep : j <= i
             IN  SubSeq(s, lo, hi)

\* s.strip()
strip(s) == StripChars(s, SpaceSet)

(***************************************************************************)
(* Python values, truthiness, equality, and dict access.                   *)
(***************************************************************************)
PyNone == [t |-> "none", s |-> <<>>, m |-> <<>>]

PyStr(cs) == [t |-> "str", s |-> cs, m |-> <<>>]

PyInt(cs) == [t |-> "int", s |-> cs, m |-> <<>>]

PyBool(bit) == [t |-> "bool", s |-> IF bit THEN <<"1">> ELSE <<"0">>, m |-> <<>>]

PyList(elems) ==
    [t |-> "list", s |-> <<>>, m |-> [i \in 1..Len(elems) |-> [k |-> "", v |-> elems[i]]]]

PyDict(entries) == [t |-> "dict", s |-> <<>>, m |-> entries]

\* bool(v)
Truthy(v) ==
    CASE v.t = "none" -> FALSE
      [] v.t = "str"  -> v.s # <<>>
      [] v.t = "int"  -> v.s # <<"0">>
      [] v.t = "bool" -> v.s = <<"1">>
      [] OTHER        -> v.m # <<>>

\* x or y
PyOr(x, y) == IF Truthy(x) THEN x ELSE y

\* x == y (True == 1 and False == 0, as in Python)
PyEq(x, y) ==
    IF x.t \in {"int", "bool"} /\ y.t \in {"int", "bool"}
    THEN x.s = y.s
    ELSE x = y

\* isinstance(v, str) or v is None
IsStrOrNone(v) == v.t \in {"str", "none"}

\* set(d.keys())
KeySet(d) == {d[i].k : i \in 1..Len(d)}

\* list(d.keys())
Keys(d) == [i \in 1..Len(d) |-> d[i].k]

\* d.get(k)
Get(d, k) ==
    IF k \in KeySet(d)
    THEN d[CHOOSE i \in 1..Len(d) : d[i].k = k].v
    ELSE PyNone

(***************************************************************************)
(* The values the variables of an operation hold in the specifications     *)
(* that do not run it.                                                     *)
(***************************************************************************)
DiffIdle ==
    /\ dpc = "off"
    /\ a = <<>>
    /\ b = <<>>
    /\ out = <<>>

PickIdle ==
    /\ ppc = "off"
    /\ items = <<>>
    /\ picked = PyNone

ArgsIdle ==
    /\ company = <<>>
    /\ country = PyNone

NoReply == [kind |-> "unused", text |-> <<>>]

ContactIdle ==
    /\ cpc = "off"
    /\ web = <<>>
    /\ ctx_items = <<>>
    /\ pick_items = <<>>
    /\ reply1 = NoReply
    /\ reply2 = NoReply
    /\ context = <<>>
    /\ data = PyNone
    /\ fallback = <<>>
    /\ contact = <<>>
    /\ trace = <<>>

MainIdle ==
    /\ mpc = "off"
    /\ merged_single = <<>>
    /\ composite = <<>>
    /\ differences = <<>>

ExtractIdle ==
    /\ xpc = "off"
    /\ profile = "none"
    /\ xitems = <<>>
    /\ xreply = NoReply
    /\ xreply2 = NoReply
    /\ xcontext = <<>>
    /\ xdata = PyNone
    /\ xrecord = <<>>
    /\ xcalls = <<>>

SearchIdle ==
    /\ spc = "off"
    /\ builder = "none"
    /\ ncap = 0
    /\ sresults = <<>>
    /\ ssubs = <<>>
    /\ managed = <<>>
    /\ sctx = <<>>

\* no lookup with its search provider is running
RobustIdle ==
    /\ rpc = "off"
    /\ rop = "none"
    /\ rbody = [kind |-> "none", items |-> <<>>]
    /\ rreply = NoReply
    /\ rreply2 = NoReply
    /\ rreplym = NoReply
    /\ rout = [raised |-> FALSE, ret |-> <<>>]

\* the workflow of main is not running
BatchIdle ==
    /\ wpc = "off"
    /\ selected = <<>>
    /\ after_swf = <<>>
    /\ widx = 0
    /\ results = <<>>
    /\ wcalls = <<>>

\* company_query_compare is not being run under a provider configuration
ProviderIdle ==
    /\ vpc = "off"
    /\ llm_env = "none"
    /\ search_env = "none"
    /\ vop = "none"
    /\ vbody = [kind |-> "none", items |-> <<>>]
    /\ vreply = NoReply
    /\ vreply2 = NoReply
    /\ vreplym = NoReply
    /\ vout = [raised |-> FALSE, ret |-> <<>>]

\* _unique_by_company is not being called
UniqueIdle ==
    /\ upc = "off"
    /\ uitems = <<>>
    /\ uout = <<>>

\* enhance_companies_with_contact_pages is not being called
PageIdle ==
    /\ gpc = "off"
    /\ gcompanies = <<>>
    /\ gpages = <<>>
    /\ gout = <<>>

\* no process that runs several lookups
SessionIdle ==
    /\ client = "off"
    /\ lookups = <<>>







(***************************************************************************)
(* The unified record's keys.                                              *)
(***************************************************************************)
COMPOSITE_KEYS ==
    <<"company_name", "country", "ceo", "company_email", "company_contact_page",
      "company_phone", "ceo_email", "ceo_phone", "cofounder", "cofounder_email",
      "cofounder_phone">>

\* the order sorted() gives the key names that occur in records
SortedKeys ==
    <<"CEO", "ceo", "ceo_email", "ceo_phone", "co_founder", "cofounder",
      "cofounder_email", "cofounder_phone", "company_contact_page",
      "company_email", "company_name", "company_phone", "country", "email",
      "phone">>

(***************************************************************************)
(* Diff Engine: diff_dicts.                                                *)
(***************************************************************************)
\* a plausible slip: an entry is recorded only when both sides are set
DiffCond_both(va, vb) == Truthy(va) /\ Truthy(vb) /\ ~PyEq(va, vb)

\* a plausible slip: the comparison of the two values is left out
DiffCond_noCompare(va, vb) == Truthy(PyOr(va, vb))

\* if (va or vb) and (va != vb)
DiffCond(va, vb) == Truthy(PyOr(va, vb)) /\ ~PyEq(va, vb)

diff_dicts(da, db) ==
    LET keys == KeySet(da) \cup KeySet(db)
        sorted == SelectSeq(SortedKeys, LAMBDA k : k \in keys)
        kept == SelectSeq(sorted, LAMBDA k : DiffCond(Get(da, k), Get(db, k)))
    IN  [i \in 1..Len(kept) |->
            [k |-> kept[i], va |-> Get(da, kept[i]), vb |-> Get(db, kept[i])]]

(***************************************************************************)
(* Contact Page Picker: _guess_contact_page_url.  A search result is a     *)
(* record [title, snippet, link]; a key the provider left out reads as "". *)
(***************************************************************************)
S_contact == <<"c","o","n","t","a","c","t">>

S_kontakt == <<"k","o","n","t","a","k","t">>

block_domains ==
    <<<<"l","i","n","k","e","d","i","n",".","c","o","m">>,
      <<"f","a","c","e","b","o","o","k",".","c","o","m">>,
      <<"t","w","i","t","t","e","r",".","c","o","m">>,
      <<"i","n","s","t","a","g","r","a","m",".","c","o","m">>,
      <<"y","o","u","t","u","b","e",".","c","o","m">>,
      <<"w","i","k","i","p","e","d","i","a",".","o","r","g">>,
      <<"c","r","u","n","c","h","b","a","s","e",".","c","o","m">>,
      <<"r","o","c","k","e","t","r","e","a","c","h",".","c","o">>,
      <<"z","o","o","m","i","n","f","o",".","c","o","m">>,
      <<"p","i","t","c","h","b","o","o","k",".","c","o","m">>,
      <<"g","l","a","s","s","d","o","o","r">>,
      <<"i","n","d","e","e","d">>,
      <<"m","a","p">>,
      <<"g","o","o","g","l","e",".","c","o","m","/","m","a","p","s">>,
      <<"b","l","o","o","m","b","e","r","g",".","c","o","m">>,
      <<"r","e","u","t","e","r","s",".","c","o","m">>,
      <<"y","e","l","p",".","c","o","m">>,
      <<"t","r","u","s","t","p","i","l","o","t",".","c","o","m">>,
      <<"o","p","e","n","c","o","r","p","o","r","a","t","e","s",".","c","o","m">>>>

\* a plausible slip: the URL is not lower-cased before the comparison
is_blocked_caseSensitive(url) ==
    \E i \in 1..Len(block_domains) : Contains(url, block_domains[i])

\* is_blocked(url): any(b in url.lower() for b in block_domains)
is_blocked(url) ==
    LET u == lower(url)
    IN  \E i \in 1..Len(block_domains) : Contains(u, block_domains[i])

\* the smallest element of a non-empty set of indexes
MinOf(S) == CHOOSE i \in S : \A j \in S : i <= j

\* the two loops over items of _guess_contact_page_url, given what
\* google_search returned
_guess_contact_page_url(its) ==
    LET url(i) == strip(its[i].link)
        title(i) == lower(its[i].title)
        usable(i) == url(i) # <<>> /\ ~is_blocked(url(i))
        preferred == {i \in 1..Len(its) :
                         /\ usable(i)
                         /\ \/ Contains(lower(url(i)), S_contact)
                            \/ Contains(title(i), S_contact)
                            \/ Contains(title(i), S_kontakt)}
        candidates == {i \in 1..Len(its) : usable(i)}
    IN  IF preferred # {} THEN PyStr(url(MinOf(preferred)))
        ELSE IF candidates # {} THEN PyStr(url(MinOf(candidates)))
        ELSE PyNone

(***************************************************************************)
(* Inputs of the picker: result lists of up to MaxItems results.           *)
(***************************************************************************)
U_home == <<"h","t","t","p","s",":","/","/","a","c","m","e",".","c","h","/">>

U_kontakt == <<"h","t","t","p","s",":","/","/","a","c","m","e",".","c","h","/","k","o","n","t","a","k","t">>

U_Contact == <<"h","t","t","p","s",":","/","/","a","c","m","e",".","c","h","/","C","o","n","t","a","c","t">>

U_LinkedIn == <<"h","t","t","p","s",":","/","/","w","w","w",".","L","i","n","k","e","d","I","n",".","c","o","m","/","c","o","m","p","a","n","y","/","a","c","m","e">>

U_wiki == <<"h","t","t","p","s",":","/","/","d","e",".","w","i","k","i","p","e","d","i","a",".","o","r","g","/","w","i","k","i","/","A","c","m","e","#","c","o","n","t","a","c","t">>

T_plain == <<"A","c","m","e"," ","A","G">>

T_Kontakt == <<"K","o","n","t","a","k","t"," ","-"," ","A","c","m","e"," ","A","G">>

T_Contact == <<"C","o","n","t","a","c","t"," ","u","s">>

S_snippet == <<"A","c","m","e"," ","A","G",","," ","Z","u","r","i","c","h">>

PickLinks == {<<>>, U_home, U_kontakt, U_Contact, U_LinkedIn, U_wiki}

PickTitles == {T_plain, T_Kontakt, T_Contact}

PickResults ==
    {[title |-> t, snippet |-> S_snippet, link |-> l] : t \in PickTitles, l \in PickLinks}

\* the sequences over S of length at most n
SeqsUpTo(S, n) == UNION {[1..k -> S] : k \in 0..n}

InitPick ==
    /\ ppc = "start"
    /\ items \in SeqsUpTo(PickResults, MaxItems)
    /\ picked = PyNone
    /\ DiffIdle
    /\ ArgsIdle
    /\ ContactIdle
    /\ MainIdle
    /\ ExtractIdle
    /\ SearchIdle
    /\ RobustIdle
    /\ BatchIdle
    /\ ProviderIdle
    /\ UniqueIdle
    /\ PageIdle
    /\ SessionIdle

DoPick ==
    /\ ppc = "start"
    /\ ppc' = "done"
    /\ picked' = _guess_contact_page_url(items)
    /\ UNCHANGED items
    /\ UNCHANGED <<diffVars, argVars, contactVars, mainVars, extractVars, searchVars,
                   robustVars, batchVars, providerVars, uniqueVars, pageVars,
                   sessionVars>>

NextPick == DoPick

SpecPick == InitPick /\ [][NextPick]_vars

(***************************************************************************)
(* Claims about the Contact Page Picker, checked under SpecPick.           *)
(***************************************************************************)
\* two characters that are equal up to the case of a letter
SameLetter(c, d) ==
    \/ c = d
    \/ \E i \in 1..26 : {c, d} = {UpperChars[i], LowerChars[i]}

\* s contains sub, case-insensitively
ContainsCI(s, sub) ==
    \E i \in 1..(Len(s) - Len(sub) + 1) :
        \A j \in 1..Len(sub) : SameLetter(s[i + j - 1], sub[j])

MatchesBlocklist(url) ==
    \E i \in 1..Len(block_domains) : ContainsCI(url, block_domains[i])

HasContactToken(text) == ContainsCI(text, S_contact) \/ ContainsCI(text, S_kontakt)

\* the ranks of the results that are not blocked (and have a URL)
NonBlocked(its) ==
    {i \in 1..Len(its) : its[i].link # <<>> /\ ~MatchesBlocklist(its[i].link)}

\* the ranks of the non-blocked results with a contact token in URL or title
ContactLike(its) ==
    {i \in NonBlocked(its) : HasContactToken(its[i].link) \/ HasContactToken(its[i].title)}

\* C6: the picker returns the URL of the first non-blocked result whose URL
\* or title contains "contact" or "kontakt"; when no non-blocked result has
\* such a token it returns the URL of the first non-blocked result.
C6_PickerPrefersContactToken ==
    ppc = "done" =>
        /\ ContactLike(items) # {} =>
               picked = PyStr(items[MinOf(ContactLike(items))].link)
        /\ (ContactLike(items) = {} /\ NonBlocked(items) # {}) =>
               picked = PyStr(items[MinOf(NonBlocked(items))].link)

\* C7: the picker never returns a URL that contains a blocklist entry,
\* case-insensitively, and returns None when every result's URL is blocked
\* or empty or there are no results.
C7_PickerNeverReturnsBlocked ==
    ppc = "done" =>
        /\ picked # PyNone =>
               (picked.t = "str" /\ picked.s # <<>> /\ ~MatchesBlocklist(picked.s))
        /\ NonBlocked(items) = {} => picked = PyNone

C7_Witness ==
    /\ ppc = "done"
    /\ Len(items) = 2
    /\ items[1].link = U_LinkedIn
    /\ HasContactToken(items[1].title)
    /\ items[2].link = U_home
    /\ picked = PyStr(U_home)

(***************************************************************************)
(* Inputs of the Diff Engine: records over the first MaxDiffKeys contact   *)
(* keys, a key either absent or holding None, "" or a name.                *)
(***************************************************************************)
S_JDoe == <<"J", ".", " ", "D", "o", "e">>

S_JaneDoe == <<"J", "a", "n", "e", " ", "D", "o", "e">>

DiffValues == {PyNone, PyStr(<<>>), PyStr(S_JDoe), PyStr(S_JaneDoe)}

DiffKeys == {COMPOSITE_KEYS[i] : i \in 4..(3 + MaxDiffKeys)}

DictOver(S, f) ==
    LET ks == SelectSeq(COMPOSITE_KEYS, LAMBDA k : k \in S)
    IN  [i \in 1..Len(ks) |-> [k |-> ks[i], v |-> f[ks[i]]]]

DiffRecords ==
    UNION {{DictOver(S, f) : f \in [S -> DiffValues]} : S \in SUBSET DiffKeys}

InitDiff ==
    /\ dpc = "start"
    /\ a \in DiffRecords
    /\ b \in DiffRecords
    /\ out = <<>>
    /\ PickIdle
    /\ ArgsIdle
    /\ ContactIdle
    /\ MainIdle
    /\ ExtractIdle
    /\ SearchIdle
    /\ RobustIdle
    /\ BatchIdle
    /\ ProviderIdle
    /\ UniqueIdle
    /\ PageIdle
    /\ SessionIdle

DoDiff ==
    /\ dpc = "start"
    /\ dpc' = "done"
    /\ out' = diff_dicts(a, b)
    /\ UNCHANGED <<a, b>>
    /\ UNCHANGED <<pickVars, argVars, contactVars, mainVars, extractVars, searchVars,
                   robustVars, batchVars, providerVars, uniqueVars, pageVars,
                   sessionVars>>

NextDiff == DoDiff

SpecDiff == InitDiff /\ [][NextDiff]_vars

(***************************************************************************)
(* Claims about the Diff Engine, checked under SpecDiff.                   *)
(***************************************************************************)
\* what a record holds at a key, a missing key reading as None
FieldOf(rec, k) ==
    IF \E i \in 1..Len(rec) : rec[i].k = k
    THEN (rec[CHOOSE i \in 1..Len(rec) : rec[i].k = k]).v
    ELSE PyNone

NonEmptyStr(v) == v.t = "str" /\ v.s # <<>>

\* C2: every key of the union on which a and b differ, with at least one of
\* the two values non-null and non-empty, is in diff_dicts(a, b), mapped to
\* the pair (a's value, b's value).
C2_DiffReportsEveryDifference ==
    dpc = "done" =>
        \A k \in KeySet(a) \cup KeySet(b) :
            (/\ FieldOf(a, k) # FieldOf(b, k)
             /\ (NonEmptyStr(FieldOf(a, k)) \/ NonEmptyStr(FieldOf(b, k))))
            => \E i \in 1..Len(out) :
                   out[i] = [k |-> k, va |-> FieldOf(a, k), vb |-> FieldOf(b, k)]

C2_Witness ==
    /\ dpc = "done"
    /\ \E k \in KeySet(a) \ KeySet(b) : NonEmptyStr(FieldOf(a, k))
    /\ \E k \in KeySet(a) \cap KeySet(b) :
           FieldOf(a, k) = PyNone /\ NonEmptyStr(FieldOf(b, k))
    /\ Len(out) = 2

\* C3: diff_dicts(a, b) reports no field that is null (or absent) on both
\* sides; each reported field carries the two records' values, which differ,
\* at least one of them being non-null.
C3_DiffNeverReportsNullNull ==
    dpc = "done" =>
        \A i \in 1..Len(out) :
            /\ out[i].va = FieldOf(a, out[i].k)
            /\ out[i].vb = FieldOf(b, out[i].k)
            /\ out[i].va # out[i].vb
            /\ (out[i].va # PyNone \/ out[i].vb # PyNone)

C3_Witness ==
    /\ dpc = "done"
    /\ Len(out) = 1
    /\ \E k \in KeySet(a) \cap KeySet(b) :
           FieldOf(a, k) = PyNone /\ FieldOf(b, k) = PyNone
    /\ out[1].va = PyNone

\* C4: diff_dicts(a, a) is empty for every record a.
C4_DiffReflexive ==
    (dpc = "done" /\ a = b) => out = <<>>

C4_Witness ==
    /\ dpc = "done"
    /\ a = b
    /\ KeySet(a) = DiffKeys
    /\ \E k \in DiffKeys : NonEmptyStr(FieldOf(a, k))

(***************************************************************************)
(* Python's re on the patterns of src/utils/llm.py.  A pattern is a        *)
(* sequence of elements: a word boundary \b, or a character class with a   *)
(* greedy repetition {lo,hi} (hi = 0: no upper limit; neg: a negated       *)
(* class).  Matching backtracks as re does: each element first takes as    *)
(* many characters as it can and gives them back one at a time.            *)
(***************************************************************************)
WordBoundary == [kind |-> "wb", set |-> {}, neg |-> FALSE, lo |-> 0, hi |-> 0]

Class(set, lo, hi) == [kind |-> "class", set |-> set, neg |-> FALSE, lo |-> lo, hi |-> hi]

NotClass(set, lo, hi) == [kind |-> "class", set |-> set, neg |-> TRUE, lo |-> lo, hi |-> hi]

\* whether the element's class accepts the character
Accepts(e, c) == IF e.neg THEN c \notin e.set ELSE c \in e.set

\* \b at pos: a word character on exactly one side of the position
IsBoundary(text, pos) ==
    LET before == pos > 1 /\ pos - 1 <= Len(text) /\ text[pos - 1] \in WordSet
        after == pos >= 1 /\ pos <= Len(text) /\ text[pos] \in WordSet
    IN  before # after

\* how many characters from pos on the element can take at most: the
\* length of the run of accepted characters, cut at the element's limit
RunLen(text, pos, e) ==
    LET room == Len(text) - pos + 1
        cap == IF e.hi = 0 \/ e.hi > room THEN room ELSE e.hi
    IN  CHOOSE n \in 0..cap :
            /\ n = cap \/ ~Accepts(e, text[pos + n])
            /\ \A j \in 0..(n - 1) : Accepts(e, text[pos + j])

RECURSIVE MatchFrom(_, _, _, _)
RECURSIVE TryCounts(_, _, _, _, _)

\* the position after the match of pat[k..] at pos, or 0 when there is none
MatchFrom(text, pos, pat, k) ==
    IF k > Len(pat) THEN pos
    ELSE IF pat[k].kind = "wb"
         THEN IF IsBoundary(text, pos) THEN MatchFrom(text, pos, pat, k + 1) ELSE 0
         ELSE TryCounts(text, pos, pat, k, RunLen(text, pos, pat[k]))

\* element k takes n characters, then n - 1, ... down to its minimum, until
\* the rest of the pattern matches
TryCounts(text, pos, pat, k, n) ==
    IF n < pat[k].lo THEN 0
    ELSE LET r == MatchFrom(text, pos + n, pat, k + 1)
         IN  IF r # 0 THEN r ELSE TryCounts(text, pos, pat, k, n - 1)

\* the positions at which the pattern matches
MatchStarts(pat, text) == {p \in 1..Len(text) : MatchFrom(text, p, pat, 1) # 0}

\* re.findall(pat, text)[0], or None when re.findall(pat, text) is empty
FirstMatch(pat, text) ==
    LET starts == MatchStarts(pat, text)
    IN  IF starts = {} THEN PyNone
        ELSE LET p == MinOf(starts)
             IN  PyStr(SubSeq(text, p, MatchFrom(text, p, pat, 1) - 1))

RECURSIVE ReSubFrom(_, _, _, _)

\* re.sub(pat, repl, text), from position pos on: the text up to the next
\* match, repl, and the same for the text after the match
ReSubFrom(pat, repl, text, pos) ==
    LET starts == {p \in pos..Len(text) : MatchFrom(text, p, pat, 1) > p}
    IN  IF starts = {} THEN Slice(text, pos, Len(text))
        ELSE LET p == MinOf(starts)
             IN  Slice(text, pos, p - 1) \o repl
                 \o ReSubFrom(pat, repl, text, MatchFrom(text, p, pat, 1))

\* ' '.join(text.split()): the whitespace at both ends dropped, every other
\* run of whitespace replaced by one space
SplitJoin(text) ==
    LET t == strip(text)
        kept == SelectSeq([i \in 1..Len(t) |-> i],
                          LAMBDA i : ~(t[i] \in SpaceSet /\ i > 1 /\ t[i - 1] \in SpaceSet))
    IN  [k \in 1..Len(kept) |-> IF t[kept[k]] \in SpaceSet THEN " " ELSE t[kept[k]]]

\* r'<[^>]+>'
TagPattern == <<Class({"<"}, 1, 1), NotClass({">"}, 1, 0), Class({">"}, 1, 1)>>

\* r'\b[A-Za-z0-9._%+-]+@[A-Za-z0-9.-]+\.[A-Z|a-z]{2,}\b'
email_pattern ==
    <<WordBoundary,
      Class(UpperSet \cup LowerSet \cup DigitSet \cup {".", "_", "%", "+", "-"}, 1, 0),
      Class({"@"}, 1, 1),
      Class(UpperSet \cup LowerSet \cup DigitSet \cup {".", "-"}, 1, 0),
      Class({"."}, 1, 1),
      Class(UpperSet \cup LowerSet \cup {"|"}, 2, 0),
      WordBoundary>>

\* [-.\s]?
SepOpt == Class({"-", "."} \cup SpaceSet, 0, 1)

\* the three phone_patterns, in the order of the list
phone_patterns ==
    << \* r'\+?\d{1,4}[-.\s]?\(?\d{1,4}\)?[-.\s]?\d{1,4}[-.\s]?\d{1,9}'
       <<Class({"+"}, 0, 1), Class(DigitSet, 1, 4), SepOpt, Class({"("}, 0, 1),
         Class(DigitSet, 1, 4), Class({")"}, 0, 1), SepOpt, Class(DigitSet, 1, 4),
         SepOpt, Class(DigitSet, 1, 9)>>,
       \* r'\b\d{3}[-.\s]?\d{3}[-.\s]?\d{4}\b'
       <<WordBoundary, Class(DigitSet, 3, 3), SepOpt, Class(DigitSet, 3, 3), SepOpt,
         Class(DigitSet, 4, 4), WordBoundary>>,
       \* r'\b\(\d{3}\)\s?\d{3}[-.\s]?\d{4}\b'
       <<WordBoundary, Class({"("}, 1, 1), Class(DigitSet, 3, 3), Class({")"}, 1, 1),
         Class(SpaceSet, 0, 1), Class(DigitSet, 3, 3), SepOpt, Class(DigitSet, 4, 4),
         WordBoundary>> >>

RECURSIVE FirstOfPatterns(_, _, _)

\* the first element of the list that collects re.findall(pats[j], text) for
\* j = i, i + 1, ... in this order, or None when the list is empty
FirstOfPatterns(pats, i, text) ==
    IF i > Len(pats) THEN PyNone
    ELSE LET m == FirstMatch(pats[i], text)
         IN  IF m # PyNone THEN m ELSE FirstOfPatterns(pats, i + 1, text)

\* _extract_contact_fallback(text): emails[0] and phones[0], or None, as
\* the dict {"email": .., "phone": ..}
_extract_contact_fallback(text) ==
    <<[k |-> "email", v |-> FirstMatch(email_pattern, text)],
      [k |-> "phone", v |-> FirstOfPatterns(phone_patterns, 1, text)]>>

\* the length beyond which extract_contact_info cuts its text
MaxTextLen == 4000

S_dots == <<".", ".", ".">>

\* the text extract_contact_info derives from a str argument: tags replaced
\* by a space, whitespace runs collapsed, cut to MaxTextLen characters
text_content(html) ==
    LET t == SplitJoin(ReSubFrom(TagPattern, <<" ">>, html, 1))
    IN  IF Len(t) > MaxTextLen THEN SubSeq(t, 1, MaxTextLen) \o S_dots ELSE t

(***************************************************************************)
(* Search Context Builder: _build_contact_search_context.                  *)
(***************************************************************************)
\* the default of the parameter n of the builders and of the picker
DefaultN == 6

RECURSIVE IntToStr(_)

\* str(i) of an int i >= 0
IntToStr(i) ==
    IF i < 10 THEN <<DigitChars[i + 1]>>
    ELSE IntToStr(i \div 10) \o <<DigitChars[(i % 10) + 1]>>

S_contactQuery == <<" ","(","c","o","n","t","a","c","t"," ","p","a","g","e"," ","O","R"," ","'","c","o","n","t","a","c","t"," ","u","s","'"," ","O","R"," ","c","o","n","t","a","c","t","s",")"," ","(","e","m","a","i","l"," ","O","R"," ","e","-","m","a","i","l",")"," ","(","p","h","o","n","e"," ","O","R"," ","t","e","l","e","p","h","o","n","e"," ","O","R"," ","t","e","l",")">>

S_Search == <<"S","e","a","r","c","h",":"," ">>

S_Result == <<"R","e","s","u","l","t"," ">>

S_colon == <<":"," ">>

S_nl == <<"\n">>

S_URL == <<"\n","U","R","L",":"," ">>

S_nlnl == <<"\n","\n">>

\* term = f"{company} {country}".strip() if country else company
SearchTerm(comp, ctry) ==
    IF Truthy(ctry) THEN strip(comp \o <<" ">> \o ctry.s) ELSE comp

\* a plausible slip: the builder shows every result it is given
ShownOf_all(its, cap) == its

\* items[:cap]
ShownOf(its, cap) == Slice(its, 1, IF Len(its) < cap THEN Len(its) ELSE cap)

RECURSIVE ContactParts(_, _)

\* the entries appended to parts for its[i..]: "\n\n".join puts the
\* separator before each of them
ContactParts(its, i) ==
    IF i > Len(its) THEN <<>>
    ELSE (IF its[i].title # <<>> \/ its[i].snippet # <<>>
          THEN S_nlnl \o S_Result \o IntToStr(i) \o S_colon \o its[i].title
               \o S_nl \o its[i].snippet \o S_URL \o its[i].link
          ELSE <<>>)
         \o ContactParts(its, i + 1)

\* _build_contact_search_context(company, country, n), given what
\* google_search returned
_build_contact_search_context(comp, ctry, n, its) ==
    LET query == SearchTerm(comp, ctry) \o S_contactQuery
        shown == ShownOf(its, n)
    IN  S_Search \o query \o ContactParts(shown, 1)

(***************************************************************************)
(* The LLM.  A chat_once call raises, returns None, or returns a text.  A  *)
(* JSON document inside a text is one element of the sequence, written as  *)
(* the document's text; json.loads accepts a text that is one known        *)
(* document between optional whitespace, and raises on anything else.      *)
(***************************************************************************)
S_Acme == <<"A","c","m","e"," ","A","G">>

S_CH == <<"C","H">>

S_info == <<"i","n","f","o","@","a","c","m","e",".","c","h">>

S_sales == <<"s","a","l","e","s","@","a","c","m","e",".","c","h">>

S_phone == <<"+","4","1"," ","4","4"," ","1","2","3"," ","4","5"," ","6","7">>

JsonDocs ==
    ("{}" :> PyDict(<<>>))
    @@ ("{\"company_email\": \"info@acme.ch\", \"company_phone\": null}" :>
          PyDict(<<[k |-> "company_email", v |-> PyStr(S_info)],
                   [k |-> "company_phone", v |-> PyNone]>>))
    @@ ("{\"company_email\": null, \"company_phone\": \"+41 44 123 45 67\"}" :>
          PyDict(<<[k |-> "company_email", v |-> PyNone],
                   [k |-> "company_phone", v |-> PyStr(S_phone)]>>))
    @@ ("{\"company_email\": \"\", \"company_phone\": \"\"}" :>
          PyDict(<<[k |-> "company_email", v |-> PyStr(<<>>)],
                   [k |-> "company_phone", v |-> PyStr(<<>>)]>>))
    @@ ("{\"company_email\": 42, \"company_phone\": null}" :>
          PyDict(<<[k |-> "company_email", v |-> PyInt(<<"4", "2">>)],
                   [k |-> "company_phone", v |-> PyNone]>>))
    @@ ("[\"info@acme.ch\"]" :> PyList(<<PyStr(S_info)>>))
    @@ ("{\"email\": \"sales@acme.ch\", \"phone\": null}" :>
          PyDict(<<[k |-> "email", v |-> PyStr(S_sales)],
                   [k |-> "phone", v |-> PyNone]>>))
    @@ ("{\"email\": null, \"phone\": 41441234567}" :>
          PyDict(<<[k |-> "email", v |-> PyNone],
                   [k |-> "phone",
                    v |-> PyInt(<<"4","1","4","4","1","2","3","4","5","6","7">>)]>>))
    @@ ("{\"ceo\": \"Jane Doe\", \"ceo_email\": null, \"ceo_phone\": null, \"cofounder\": null, \"cofounder_email\": null, \"cofounder_phone\": null}" :>
          PyDict(<<[k |-> "ceo", v |-> PyStr(S_JaneDoe)],
                   [k |-> "ceo_email", v |-> PyNone],
                   [k |-> "ceo_phone", v |-> PyNone],
                   [k |-> "cofounder", v |-> PyNone],
                   [k |-> "cofounder_email", v |-> PyNone],
                   [k |-> "cofounder_phone", v |-> PyNone]>>))
    @@ ("{\"ceo\": \"J. Doe\", \"co_founder\": \"Jane Doe\"}" :>
          PyDict(<<[k |-> "ceo", v |-> PyStr(S_JDoe)],
                   [k |-> "co_founder", v |-> PyStr(S_JaneDoe)]>>))
    @@ ("{\"ceo\": 7, \"cofounder\": [\"Jane Doe\"], \"ceo_phone\": true}" :>
          PyDict(<<[k |-> "ceo", v |-> PyInt(<<"7">>)],
                   [k |-> "cofounder", v |-> PyList(<<PyStr(S_JaneDoe)>>)],
                   [k |-> "ceo_phone", v |-> PyBool(TRUE)]>>))
    @@ ("{\"company_name\": \"Acme AG\", \"country\": \"CH\", \"ceo\": \"J. Doe\", \"company_email\": \"info@acme.ch\", \"company_contact_page\": null, \"company_phone\": null, \"ceo_email\": null, \"ceo_phone\": null, \"cofounder\": null, \"cofounder_email\": null, \"cofounder_phone\": null}" :>
          PyDict(<<[k |-> "company_name", v |-> PyStr(S_Acme)],
                   [k |-> "country", v |-> PyStr(S_CH)],
                   [k |-> "ceo", v |-> PyStr(S_JDoe)],
                   [k |-> "company_email", v |-> PyStr(S_info)],
                   [k |-> "company_contact_page", v |-> PyNone],
                   [k |-> "company_phone", v |-> PyNone],
                   [k |-> "ceo_email", v |-> PyNone],
                   [k |-> "ceo_phone", v |-> PyNone],
                   [k |-> "cofounder", v |-> PyNone],
                   [k |-> "cofounder_email", v |-> PyNone],
                   [k |-> "cofounder_phone", v |-> PyNone]>>))
    @@ ("{\"company_name\": \"\", \"ceo\": \"Jane Doe\", \"company_contact_page\": \"https://acme.ch/Contact\"}" :>
          PyDict(<<[k |-> "company_name", v |-> PyStr(<<>>)],
                   [k |-> "ceo", v |-> PyStr(S_JaneDoe)],
                   [k |-> "company_contact_page", v |-> PyStr(U_Contact)]>>))
    @@ ("{\"company_name\": 5, \"country\": false, \"ceo\": 7, \"company_email\": 42, \"company_contact_page\": [], \"company_phone\": 41441234567}" :>
          PyDict(<<[k |-> "company_name", v |-> PyInt(<<"5">>)],
                   [k |-> "country", v |-> PyBool(FALSE)],
                   [k |-> "ceo", v |-> PyInt(<<"7">>)],
                   [k |-> "company_email", v |-> PyInt(<<"4", "2">>)],
                   [k |-> "company_contact_page", v |-> PyList(<<>>)],
                   [k |-> "company_phone",
                    v |-> PyInt(<<"4","1","4","4","1","2","3","4","5","6","7">>)]>>))
    @@ ("{\"company_contact_page\": \"\"}" :>
          PyDict(<<[k |-> "company_contact_page", v |-> PyStr(<<>>)]>>))
    @@ ("{\"company_contact_page\": \"https://www.LinkedIn.com/company/acme\"}" :>
          PyDict(<<[k |-> "company_contact_page", v |-> PyStr(U_LinkedIn)]>>))
    @@ ("{\"CEO\": \"Jane Doe\"}" :>
          PyDict(<<[k |-> "CEO", v |-> PyStr(S_JaneDoe)]>>))
    @@ ("{\"ceo\": null, \"CEO\": \"Jane Doe\", \"cofounder\": null, \"co_founder\": \"J. Doe\"}" :>
          PyDict(<<[k |-> "ceo", v |-> PyNone],
                   [k |-> "CEO", v |-> PyStr(S_JaneDoe)],
                   [k |-> "cofounder", v |-> PyNone],
                   [k |-> "co_founder", v |-> PyStr(S_JDoe)]>>))
    @@ ("{\"ceo\": \"J. Doe\", \"CEO\": \"Jane Doe\", \"cofounder\": \"J. Doe\", \"co_founder\": \"Jane Doe\"}" :>
          PyDict(<<[k |-> "ceo", v |-> PyStr(S_JDoe)],
                   [k |-> "CEO", v |-> PyStr(S_JaneDoe)],
                   [k |-> "cofounder", v |-> PyStr(S_JDoe)],
                   [k |-> "co_founder", v |-> PyStr(S_JaneDoe)]>>))

\* json.loads(text): ok is FALSE when it raises
json_loads(text) ==
    LET t == strip(text)
    IN  IF Len(t) = 1 /\ t[1] \in DOMAIN JsonDocs
        THEN [ok |-> TRUE, v |-> JsonDocs[t[1]]]
        ELSE [ok |-> FALSE, v |-> PyNone]

\* the grave accent, a character that a TLA+ string cannot hold
Backtick == "GRAVE"

S_fence == <<Backtick, Backtick, Backtick>>

S_json == <<"j","s","o","n">>

\* s.lstrip(chars)
LStripChars(s, chars) ==
    LET keep == {i \in 1..Len(s) : s[i] \notin chars}
    IN  IF keep = {} THEN <<>> ELSE SubSeq(s, MinOf(keep), Len(s))

\* the exception that leaves a function that does not catch it
Raised == [t |-> "raised", s |-> <<>>, m |-> <<>>]

\* a plausible slip: no try/except around the call and the parse
_llm_json_noCatch(reply) ==
    IF reply.kind = "raise" THEN Raised
    ELSE LET resp == IF reply.kind = "text" THEN reply.text ELSE <<>>
             text == strip(resp)
             bare == StripChars(text, {Backtick, "\n", " "})
             body == IF StartsWith(text, S_fence)
                     THEN IF StartsWith(bare, S_json)
                          THEN LStripChars(Slice(bare, 5, Len(bare)), {"\n"})
                          ELSE bare
                     ELSE text
             parsed == json_loads(body)
         IN  IF parsed.ok THEN parsed.v ELSE Raised

\* a plausible slip: the fence is stripped but its json tag is left
_llm_json_keepTag(reply) ==
    IF reply.kind = "raise" THEN PyDict(<<>>)
    ELSE LET resp == IF reply.kind = "text" THEN reply.text ELSE <<>>
             text == strip(resp)
             bare == StripChars(text, {Backtick, "\n", " "})
             body == IF StartsWith(text, S_fence) THEN bare ELSE text
             parsed == json_loads(body)
         IN  IF parsed.ok THEN parsed.v ELSE PyDict(<<>>)

\* _llm_json, given the outcome of its chat_once call
_llm_json(reply) ==
    IF reply.kind = "raise" THEN PyDict(<<>>)
    ELSE LET resp == IF reply.kind = "text" THEN reply.text ELSE <<>>
             text == strip(resp)
             bare == StripChars(text, {Backtick, "\n", " "})
             body == IF StartsWith(text, S_fence)
                     THEN IF StartsWith(bare, S_json)
                          THEN LStripChars(Slice(bare, 5, Len(bare)), {"\n"})
                          ELSE bare
                     ELSE text
             parsed == json_loads(body)
         IN  IF parsed.ok THEN parsed.v ELSE PyDict(<<>>)

(***************************************************************************)
(* Fallback Resolver: extract_contact_info (imported as                    *)
(* llm_extract_contact) on a str argument.                                 *)
(***************************************************************************)
\* extract_contact_info(html), given the outcome of its chat_once call: the
\* parsed reply's email and phone, or the patterns' when the call raises,
\* returns None, or the reply is no JSON object
extract_contact_info(html, reply) ==
    LET text == text_content(html)
        parsed == IF reply.kind = "text" THEN json_loads(strip(reply.text))
                  ELSE [ok |-> FALSE, v |-> PyNone]
    IN  IF parsed.ok /\ parsed.v.t = "dict"
        THEN <<[k |-> "email", v |-> Get(parsed.v.m, "email")],
               [k |-> "phone", v |-> Get(parsed.v.m, "phone")]>>
        ELSE _extract_contact_fallback(text)

(***************************************************************************)
(* Single-Query Service: query_contact.                                    *)
(***************************************************************************)
\* a plausible slip: the LLM's values are used only when both are there
UseLLMValues_both(email, phone) == Truthy(email) /\ Truthy(phone)

\* if email or phone:
UseLLMValues(email, phone) == Truthy(email) \/ Truthy(phone)

\* the dict returned when the LLM gave an email or a phone
DirectReturn(email, phone, page_url) ==
    <<[k |-> "company_email", v |-> email],
      [k |-> "company_phone", v |-> phone],
      [k |-> "company_contact_page", v |-> page_url]>>

\* a plausible slip: the fallback path forgets the picked page
FallbackReturn_noPage(fb, page_url) ==
    <<[k |-> "company_email", v |-> Get(fb, "email")],
      [k |-> "company_phone", v |-> Get(fb, "phone")],
      [k |-> "company_contact_page", v |-> PyNone]>>

\* the dict returned after the fallback
FallbackReturn(fb, page_url) ==
    <<[k |-> "company_email", v |-> Get(fb, "email")],
      [k |-> "company_phone", v |-> Get(fb, "phone")],
      [k |-> "company_contact_page", v |-> page_url]>>

\* query_contact(company, country), given what its two google_search calls
\* returned (the context builder's and the picker's) and the outcomes of the
\* chat_once calls of _llm_json and of llm_extract_contact.  ret is the
\* returned dict; the other fields are the locals and the calls made.
query_contact(comp, ctry, ctxIts, pickIts, r1, r2) ==
    LET ctx == _build_contact_search_context(comp, ctry, DefaultN, ctxIts)
        d == _llm_json(r1)
        email == PyOr(IF d.t = "dict" THEN Get(d.m, "company_email") ELSE PyNone, PyNone)
        phone == PyOr(IF d.t = "dict" THEN Get(d.m, "company_phone") ELSE PyNone, PyNone)
        page_url == _guess_contact_page_url(pickIts)
        fb == extract_contact_info(ctx, r2)
    IN  IF UseLLMValues(email, phone)
        THEN [ret |-> DirectReturn(email, phone, page_url),
              context |-> ctx, data |-> d, fallback |-> <<>>,
              trace |-> <<"google_search", "chat_once", "google_search">>]
        ELSE [ret |-> FallbackReturn(fb, page_url),
              context |-> ctx, data |-> d, fallback |-> fb,
              trace |-> <<"google_search", "chat_once", "google_search",
                          "extract_contact_info", "chat_once">>]

(***************************************************************************)
(* Inputs of a contact lookup.                                             *)
(***************************************************************************)
Companies == {S_Acme}

Countries == {PyNone, PyStr(S_CH)}

S_prose == <<"S","o","r","r","y",","," ","n","o"," ","d","a","t","a",".">>

\* the search results for the contact query
ContactResults ==
    {[title |-> T_plain, snippet |-> <<"M","a","i","l"," ","i","n","f","o","@","a","c","m","e",".","c","h">>, link |-> U_home],
     [title |-> T_Kontakt, snippet |-> <<"T","e","l"," ","+","4","1"," ","4","4"," ","1","2","3"," ","4","5"," ","6","7">>, link |-> U_kontakt],
     [title |-> <<"A","c","m","e"," ","A","G"," ","|"," ","L","i","n","k","e","d","I","n">>, snippet |-> <<"W","r","i","t","e"," ","t","o"," ","<","o","f","f","i","c","e","@","a","c","m","e",".","c","h",">">>, link |-> U_LinkedIn],
     [title |-> <<>>, snippet |-> <<>>, link |-> U_Contact]}

TextReply(text) == [kind |-> "text", text |-> text]

RaiseReply == [kind |-> "raise", text |-> <<>>]

NoneReply == [kind |-> "none", text |-> <<>>]

\* the outcomes of the chat_once call of _llm_json in query_contact
ContactReplies ==
    {RaiseReply, NoneReply, TextReply(S_prose),
     TextReply(<<"{}">>),
     TextReply(<<"{\"company_email\": \"info@acme.ch\", \"company_phone\": null}">>),
     TextReply(<<"{\"company_email\": null, \"company_phone\": \"+41 44 123 45 67\"}">>),
     TextReply(<<"{\"company_email\": \"\", \"company_phone\": \"\"}">>),
     TextReply(<<"{\"company_email\": 42, \"company_phone\": null}">>),
     TextReply(<<"[\"info@acme.ch\"]">>),
     TextReply(S_fence \o S_json \o S_nl
               \o <<"{\"company_email\": \"info@acme.ch\", \"company_phone\": null}">>
               \o S_nl \o S_fence)}

\* the outcomes of the chat_once call of extract_contact_info
FallbackReplies ==
    {RaiseReply, TextReply(S_prose),
     TextReply(<<"{\"email\": \"sales@acme.ch\", \"phone\": null}">>),
     TextReply(<<"{\"email\": null, \"phone\": 41441234567}">>),
     TextReply(<<"[\"info@acme.ch\"]">>)}

InitContact ==
    /\ company \in Companies
    /\ country \in Countries
    /\ cpc = "start"
    /\ web = <<>>
    /\ ctx_items = <<>>
    /\ pick_items = <<>>
    /\ reply1 = NoReply
    /\ reply2 = NoReply
    /\ context = <<>>
    /\ data = PyNone
    /\ fallback = <<>>
    /\ contact = <<>>
    /\ trace = <<>>
    /\ DiffIdle
    /\ PickIdle
    /\ MainIdle
    /\ ExtractIdle
    /\ SearchIdle
    /\ RobustIdle
    /\ BatchIdle
    /\ ProviderIdle
    /\ UniqueIdle
    /\ PageIdle
    /\ SessionIdle

\* whether query_contact, after this outcome of its first chat_once call,
\* goes on to the call whose chat_once consumes a second outcome
NeedsFallbackReply(r1) ==
    Len(query_contact(<<>>, PyNone, <<>>, <<>>, r1, NoReply).trace) > 3

\* one call of query_contact: each google_search call returns the provider's
\* results, or [] when the request fails
QueryContact ==
    /\ cpc = "start"
    /\ \E w \in SeqsUpTo(ContactResults, MaxContactItems) :
       \E ci \in {w, <<>>}, pi \in {w, <<>>} :
       \E r1 \in ContactReplies :
       \E r2 \in (IF NeedsFallbackReply(r1) THEN FallbackReplies ELSE {NoReply}) :
          LET run == query_contact(company, country, ci, pi, r1, r2)
          IN  /\ web' = w
              /\ ctx_items' = ci
              /\ pick_items' = pi
              /\ reply1' = r1
              /\ reply2' = r2
              /\ context' = run.context
              /\ data' = run.data
              /\ fallback' = run.fallback
              /\ contact' = run.ret
              /\ trace' = run.trace
    /\ cpc' = "done"
    /\ UNCHANGED <<argVars, diffVars, pickVars, mainVars, extractVars, searchVars,
                   robustVars, batchVars, providerVars, uniqueVars, pageVars,
                   sessionVars>>

NextContact == QueryContact

SpecContact == InitContact /\ [][NextContact]_vars

(***************************************************************************)
(* Properties of query_contact.                                            *)
(***************************************************************************)
\* the call log holds a call of the Fallback Resolver
FallbackInvoked == \E i \in 1..Len(trace) : trace[i] = "extract_contact_info"

\* what the structured extraction produced for key k: the value of the
\* parsed reply, null when the reply is no object, lacks k, or holds an
\* empty value there
Extracted(k) ==
    LET v == IF data.t = "dict" THEN FieldOf(data.m, k) ELSE PyNone
    IN  IF Truthy(v) THEN v ELSE PyNone

\* the search context text holds an email address
ContextHasEmail == MatchStarts(email_pattern, context) # {}

\* the search context text holds a phone number
ContextHasPhone ==
    \E i \in 1..Len(phone_patterns) : MatchStarts(phone_patterns[i], context) # {}

\* C8: whatever the structured LLM call gave, and on both return paths, the
\* company_contact_page that query_contact returns is the picker's result
\* for the results its search returned.
C8_ContactPageIsPickerResult ==
    cpc = "done" =>
        FieldOf(contact, "company_contact_page") = _guess_contact_page_url(pick_items)

\* C8's case: the LLM call raised, the fallback ran, and the picker found
\* the Kontakt page
C8_Witness ==
    /\ cpc = "done"
    /\ reply1 = RaiseReply
    /\ FallbackInvoked
    /\ FieldOf(contact, "company_contact_page") = PyStr(U_kontakt)

\* C9: the Fallback Resolver is invoked exactly when the structured
\* extraction produced neither an email nor a phone; when it runs, its email
\* and phone are returned; otherwise the extraction's values are returned.
C9_FallbackIffNothingExtracted ==
    cpc = "done" =>
        /\ FallbackInvoked <=>
              (Extracted("company_email") = PyNone /\ Extracted("company_phone") = PyNone)
        /\ FallbackInvoked =>
              /\ FieldOf(contact, "company_email") = FieldOf(fallback, "email")
              /\ FieldOf(contact, "company_phone") = FieldOf(fallback, "phone")
        /\ ~FallbackInvoked =>
              /\ FieldOf(contact, "company_email") = Extracted("company_email")
              /\ FieldOf(contact, "company_phone") = Extracted("company_phone")

\* C9's case: a reply that is no JSON sends query_contact to the fallback,
\* whose email it returns
C9_Witness ==
    /\ cpc = "done"
    /\ reply1 = TextReply(S_prose)
    /\ FallbackInvoked
    /\ FieldOf(contact, "company_email") = PyStr(S_sales)

\* C10: when every LLM call fails and the search context holds an email
\* address and no phone number, query_contact returns that email, a null
\* phone, and the picker's result.
C10_NoLlmEmailFromContext ==
    (/\ cpc = "done"
     /\ reply1.kind = "raise"
     /\ reply2.kind = "raise"
     /\ ContextHasEmail
     /\ ~ContextHasPhone) =>
        /\ FieldOf(contact, "company_email") = FirstMatch(email_pattern, context)
        /\ FieldOf(contact, "company_phone") = PyNone
        /\ FieldOf(contact, "company_contact_page") = _guess_contact_page_url(pick_items)

(***************************************************************************)
(* Single-Query Service (management part), Composite-Query Service, and    *)
(* the merge.  The search contexts of query_management and query_composite *)
(* go into the prompt only; what these functions return is decided by the  *)
(* outcome of their chat_once call and, for the contact page, the picker.  *)
(***************************************************************************)
\* the local _get(d, k) of query_management and of query_composite
_get(d, k) ==
    LET v == IF d.t = "dict" THEN Get(d.m, k) ELSE PyNone
    IN  IF IsStrOrNone(v) THEN v ELSE PyNone

\* query_management(company, country), given the outcome of its chat_once
\* call
query_management(reply) ==
    LET d == _llm_json(reply)
    IN  <<[k |-> "ceo", v |-> _get(d, "ceo")],
          [k |-> "ceo_email", v |-> _get(d, "ceo_email")],
          [k |-> "ceo_phone", v |-> _get(d, "ceo_phone")],
          [k |-> "cofounder", v |-> PyOr(_get(d, "cofounder"), _get(d, "co_founder"))],
          [k |-> "cofounder_email", v |-> _get(d, "cofounder_email")],
          [k |-> "cofounder_phone", v |-> _get(d, "cofounder_phone")]>>

\* a plausible slip: the picker is consulted only for a null entry
NeedsPicker_nullOnly(result) == Get(result, "company_contact_page") = PyNone

\* if not result.get("company_contact_page"):
NeedsPicker(result) == ~Truthy(Get(result, "company_contact_page"))

\* result["company_contact_page"] = _guess_contact_page_url(..) when the
\* entry is empty
FillContactPage(result, pickIts) ==
    IF NeedsPicker(result)
    THEN [i \in 1..Len(result) |->
            IF result[i].k = "company_contact_page"
            THEN [k |-> result[i].k, v |-> _guess_contact_page_url(pickIts)]
            ELSE result[i]]
    ELSE result

\* a plausible slip: the inputs are always used for company_name and
\* country, the LLM's are ignored
composite_result_inputsOnly(comp, ctry, reply) ==
    LET d == _llm_json(reply)
    IN  <<[k |-> "company_name", v |-> PyStr(comp)],
          [k |-> "country", v |-> PyOr(ctry, PyStr(<<>>))],
          [k |-> "ceo", v |-> _get(d, "ceo")],
          [k |-> "company_email", v |-> _get(d, "company_email")],
          [k |-> "company_contact_page", v |-> _get(d, "company_contact_page")],
          [k |-> "company_phone", v |-> _get(d, "company_phone")],
          [k |-> "ceo_email", v |-> _get(d, "ceo_email")],
          [k |-> "ceo_phone", v |-> _get(d, "ceo_phone")],
          [k |-> "cofounder", v |-> PyOr(_get(d, "cofounder"), _get(d, "co_founder"))],
          [k |-> "cofounder_email", v |-> _get(d, "cofounder_email")],
          [k |-> "cofounder_phone", v |-> _get(d, "cofounder_phone")]>>

\* the dict result of query_composite, before its contact page is filled
composite_result(comp, ctry, reply) ==
    LET d == _llm_json(reply)
    IN  <<[k |-> "company_name", v |-> PyOr(_get(d, "company_name"), PyStr(comp))],
          [k |-> "country", v |-> PyOr(_get(d, "country"), PyOr(ctry, PyStr(<<>>)))],
          [k |-> "ceo", v |-> _get(d, "ceo")],
          [k |-> "company_email", v |-> _get(d, "company_email")],
          [k |-> "company_contact_page", v |-> _get(d, "company_contact_page")],
          [k |-> "company_phone", v |-> _get(d, "company_phone")],
          [k |-> "ceo_email", v |-> _get(d, "ceo_email")],
          [k |-> "ceo_phone", v |-> _get(d, "ceo_phone")],
          [k |-> "cofounder", v |-> PyOr(_get(d, "cofounder"), _get(d, "co_founder"))],
          [k |-> "cofounder_email", v |-> _get(d, "cofounder_email")],
          [k |-> "cofounder_phone", v |-> _get(d, "cofounder_phone")]>>

\* query_composite(company, country), given the outcome of its chat_once
\* call and what the picker's google_search call returned
query_composite(comp, ctry, reply, pickIts) ==
    FillContactPage(composite_result(comp, ctry, reply), pickIts)

\* d.get(k) if d else None
GetIf(d, k) == IF d # <<>> THEN Get(d, k) ELSE PyNone

\* a plausible slip: country is copied without its default
_merge_single_results_noDefault(comp, ctry, cont, mgmt) ==
    <<[k |-> "company_name", v |-> PyStr(comp)],
      [k |-> "country", v |-> ctry],
      [k |-> "ceo", v |-> GetIf(mgmt, "ceo")],
      [k |-> "company_email", v |-> GetIf(cont, "company_email")],
      [k |-> "company_contact_page", v |-> GetIf(cont, "company_contact_page")],
      [k |-> "company_phone", v |-> GetIf(cont, "company_phone")],
      [k |-> "ceo_email", v |-> GetIf(mgmt, "ceo_email")],
      [k |-> "ceo_phone", v |-> GetIf(mgmt, "ceo_phone")],
      [k |-> "cofounder", v |-> GetIf(mgmt, "cofounder")],
      [k |-> "cofounder_email", v |-> GetIf(mgmt, "cofounder_email")],
      [k |-> "cofounder_phone", v |-> GetIf(mgmt, "cofounder_phone")]>>

\* _merge_single_results(company, country, contact, mgmt)
_merge_single_results(comp, ctry, cont, mgmt) ==
    <<[k |-> "company_name", v |-> PyStr(comp)],
      [k |-> "country", v |-> PyOr(ctry, PyStr(<<>>))],
      [k |-> "ceo", v |-> GetIf(mgmt, "ceo")],
      [k |-> "company_email", v |-> GetIf(cont, "company_email")],
      [k |-> "company_contact_page", v |-> GetIf(cont, "company_contact_page")],
      [k |-> "company_phone", v |-> GetIf(cont, "company_phone")],
      [k |-> "ceo_email", v |-> GetIf(mgmt, "ceo_email")],
      [k |-> "ceo_phone", v |-> GetIf(mgmt, "ceo_phone")],
      [k |-> "cofounder", v |-> GetIf(mgmt, "cofounder")],
      [k |-> "cofounder_email", v |-> GetIf(mgmt, "cofounder_email")],
      [k |-> "cofounder_phone", v |-> GetIf(mgmt, "cofounder_phone")]>>

\* query_single_then_merge(company, country), given what the google_search
\* calls of query_contact returned and the outcomes of the chat_once calls of
\* query_contact (r1, r2) and of query_management (rm)
query_single_then_merge(comp, ctry, ctxIts, pickIts, r1, r2, rm) ==
    LET cont == query_contact(comp, ctry, ctxIts, pickIts, r1, r2).ret
        mgmt == query_management(rm)
    IN  _merge_single_results(comp, ctry, cont, mgmt)

(***************************************************************************)
(* CLI entry point: main.                                                  *)
(***************************************************************************)
\* a plausible slip: the two records are handed to diff_dicts the other way
\* round
main_differences_swapped(comp_rec, single_rec) == diff_dicts(single_rec, comp_rec)

\* differences = diff_dicts(composite, merged_single)
main_differences(comp_rec, single_rec) == diff_dicts(comp_rec, single_rec)

\* the outcomes of the chat_once call of _llm_json in query_management
ManagementReplies ==
    {RaiseReply, TextReply(S_prose),
     TextReply(<<"{\"ceo\": \"Jane Doe\", \"ceo_email\": null, \"ceo_phone\": null, \"cofounder\": null, \"cofounder_email\": null, \"cofounder_phone\": null}">>),
     TextReply(<<"{\"ceo\": \"J. Doe\", \"co_founder\": \"Jane Doe\"}">>),
     TextReply(<<"{\"ceo\": 7, \"cofounder\": [\"Jane Doe\"], \"ceo_phone\": true}">>)}

\* the outcomes of the chat_once call of _llm_json in query_composite
CompositeReplies ==
    {RaiseReply, TextReply(<<"{}">>), TextReply(<<"[\"info@acme.ch\"]">>),
     TextReply(<<"{\"company_name\": \"Acme AG\", \"country\": \"CH\", \"ceo\": \"J. Doe\", \"company_email\": \"info@acme.ch\", \"company_contact_page\": null, \"company_phone\": null, \"ceo_email\": null, \"ceo_phone\": null, \"cofounder\": null, \"cofounder_email\": null, \"cofounder_phone\": null}">>),
     TextReply(<<"{\"company_name\": \"\", \"ceo\": \"Jane Doe\", \"company_contact_page\": \"https://acme.ch/Contact\"}">>),
     TextReply(<<"{\"company_name\": 5, \"country\": false, \"ceo\": 7, \"company_email\": 42, \"company_contact_page\": [], \"company_phone\": 41441234567}">>)}

\* main after it has read its arguments
Init ==
    /\ company \in Companies
    /\ country \in Countries
    /\ mpc = "start"
    /\ merged_single = <<>>
    /\ composite = <<>>
    /\ differences = <<>>
    /\ DiffIdle
    /\ PickIdle
    /\ ContactIdle
    /\ ExtractIdle
    /\ SearchIdle
    /\ RobustIdle
    /\ BatchIdle
    /\ ProviderIdle
    /\ UniqueIdle
    /\ PageIdle
    /\ SessionIdle

\* merged_single = query_single_then_merge(company, country); web is what
\* the search provider holds for the contact query during this run
RunSingle ==
    /\ mpc = "start"
    /\ \E w \in SeqsUpTo(ContactResults, MaxContactItems) :
       \E ci \in {w, <<>>}, pi \in {w, <<>>} :
       \E r1 \in ContactReplies, rm \in ManagementReplies :
       \E r2 \in (IF NeedsFallbackReply(r1) THEN FallbackReplies ELSE {NoReply}) :
          /\ web' = w
          /\ merged_single' =
                query_single_then_merge(company, country, ci, pi, r1, r2, rm)
    /\ mpc' = "merged"
    /\ UNCHANGED <<cpc, ctx_items, pick_items, reply1, reply2, context, data,
                   fallback, contact, trace>>
    /\ UNCHANGED <<composite, differences, argVars, diffVars, pickVars, extractVars,
                   searchVars, robustVars, batchVars, providerVars, uniqueVars,
                   pageVars, sessionVars>>

\* composite = query_composite(company, country)
RunComposite ==
    /\ mpc = "merged"
    /\ \E rc \in CompositeReplies, pi \in {web, <<>>} :
          composite' = query_composite(company, country, rc, pi)
    /\ mpc' = "composite"
    /\ UNCHANGED <<merged_single, differences, argVars, diffVars, pickVars,
                   contactVars, extractVars, searchVars, robustVars, batchVars,
                   providerVars, uniqueVars, pageVars, sessionVars>>

\* differences = diff_dicts(composite, merged_single)
RunDiff ==
    /\ mpc = "composite"
    /\ differences' = main_differences(composite, merged_single)
    /\ mpc' = "done"
    /\ UNCHANGED <<merged_single, composite, argVars, diffVars, pickVars,
                   contactVars, extractVars, searchVars, robustVars, batchVars,
                   providerVars, uniqueVars, pageVars, sessionVars>>

Next == RunSingle \/ RunComposite \/ RunDiff

Spec == Init /\ [][Next]_vars

(***************************************************************************)
(* Properties of the records and of main's diff.                           *)
(***************************************************************************)
\* rec has exactly the 11 keys, in the fixed order, each with a string or
\* null
IsUnifiedRecord(rec) ==
    /\ [i \in 1..Len(rec) |-> rec[i].k] = COMPOSITE_KEYS
    /\ \A i \in 1..Len(rec) : rec[i].v.t \in {"str", "none"}

\* C1: the records returned by query_single_then_merge and by
\* query_composite have exactly the 11 keys in the fixed order, and every
\* value is a string or null.
C1_RecordsAreUnified ==
    /\ mpc \in {"merged", "composite", "done"} => IsUnifiedRecord(merged_single)
    /\ mpc \in {"composite", "done"} => IsUnifiedRecord(composite)

\* the two records agree on every field but ceo, where they hold two
\* different non-empty strings
DifferInCeoOnly ==
    /\ \A i \in 1..Len(COMPOSITE_KEYS) :
          COMPOSITE_KEYS[i] # "ceo" =>
             FieldOf(composite, COMPOSITE_KEYS[i]) = FieldOf(merged_single, COMPOSITE_KEYS[i])
    /\ NonEmptyStr(FieldOf(composite, "ceo"))
    /\ NonEmptyStr(FieldOf(merged_single, "ceo"))
    /\ FieldOf(composite, "ceo") # FieldOf(merged_single, "ceo")

\* C5: when the composite and the single-merged record differ in ceo only,
\* with two different non-empty strings, main's diff is the one entry
\* ceo -> (composite's ceo, single-merged's ceo).
C5_MainDiffCompositeFirst ==
    (mpc = "done" /\ DifferInCeoOnly) =>
        differences = <<[k |-> "ceo", va |-> FieldOf(composite, "ceo"),
                         vb |-> FieldOf(merged_single, "ceo")]>>

\* C5's case: composite says J. Doe, the single queries say Jane Doe
C5_Witness ==
    /\ mpc = "done"
    /\ DifferInCeoOnly
    /\ differences = <<[k |-> "ceo", va |-> PyStr(S_JDoe), vb |-> PyStr(S_JaneDoe)]>>

(***************************************************************************)
(* Properties of the Fallback Resolver inside query_contact.               *)
(***************************************************************************)
\* the call log holds an LLM call after the call of the Fallback Resolver
LlmCallAfterFallback ==
    \E i, j \in 1..Len(trace) :
        i < j /\ trace[i] = "extract_contact_info" /\ trace[j] = "chat_once"

\* what a pattern scan finds in the text the resolver derives from the
\* search context
PatternScan == _extract_contact_fallback(text_content(context))

\* C11: whenever the Fallback Resolver is invoked, the email and phone it
\* returns are the ones a pattern scan of the search context finds, and it
\* issues no further LLM call.
C11_FallbackIsRegexOnly ==
    (cpc = "done" /\ FallbackInvoked) =>
        /\ FieldOf(fallback, "email") = FieldOf(PatternScan, "email")
        /\ FieldOf(fallback, "phone") = FieldOf(PatternScan, "phone")
        /\ ~LlmCallAfterFallback

(***************************************************************************)
(* Field accessor discipline.                                              *)
(***************************************************************************)
\* v is a number, a boolean, an object or a list
NotStrNorNull(v) == v.t \notin {"str", "none"}

\* C12 (contact profile): a field whose value in the parsed LLM JSON is
\* neither a string nor null is null in the record query_contact returns.
C12_ContactFieldsCoerced ==
    (cpc = "done" /\ data.t = "dict") =>
        \A k \in {"company_email", "company_phone"} :
            NotStrNorNull(FieldOf(data.m, k)) => FieldOf(contact, k) = PyNone

(***************************************************************************)
(* Management search: google_search_manager and                            *)
(* _build_management_search_context.  subs[q] is what google_search        *)
(* returned for the q-th sub-query ([] when the request failed).           *)
(***************************************************************************)
\* the suffixes that make the sub-queries of google_search_manager
search_suffixes ==
    <<<<" ","C","E","O">>,
      <<" ","G","e","s","c","h","ä","f","t","s","f","ü","h","r","e","r">>,
      <<" ","f","o","u","n","d","e","r">>,
      <<" ","c","o","-","f","o","u","n","d","e","r">>,
      <<" ","m","a","n","a","g","i","n","g"," ","d","i","r","e","c","t","o","r">>,
      <<" ","G","r","ü","n","d","e","r">>>>

\* search_queries
search_queries(query) ==
    [q \in 1..Len(search_suffixes) |-> query \o search_suffixes[q]]

RECURSIVE all_results_from(_, _, _)

\* all_results: the results of the sub-queries q, q + 1, ..., each with its
\* search_query
all_results_from(query, subs, q) ==
    IF q > Len(search_suffixes) THEN <<>>
    ELSE [i \in 1..Len(subs[q]) |->
            [title |-> subs[q][i].title, snippet |-> subs[q][i].snippet,
             link |-> subs[q][i].link, search_query |-> search_queries(query)[q]]]
         \o all_results_from(query, subs, q + 1)

\* unique_results: the results with a non-empty link that no earlier result
\* has
unique_results(all) ==
    LET tagged == [i \in 1..Len(all) |-> [idx |-> i, r |-> all[i]]]
        kept == SelectSeq(tagged, LAMBDA e :
                    /\ e.r.link # <<>>
                    /\ \A j \in 1..(e.idx - 1) : all[j].link # e.r.link)
    IN  [i \in 1..Len(kept) |-> kept[i].r]

\* a plausible slip: the cap is applied to the merged list, then duplicates
\* are removed
google_search_manager_capFirst(query, n, subs) ==
    LET all == all_results_from(query, subs, 1)
    IN  unique_results(Slice(all, 1, IF Len(all) < n * 2 THEN Len(all) ELSE n * 2))

\* google_search_manager(query, n=n)
google_search_manager(query, n, subs) ==
    LET uniq == unique_results(all_results_from(query, subs, 1))
    IN  Slice(uniq, 1, IF Len(uniq) < n * 2 THEN Len(uniq) ELSE n * 2)

S_SearchMgmt == <<"S","e","a","r","c","h"," ","(","m","a","n","a","g","e","m","e","n","t",")",":"," ">>

S_open == <<" ", "(">>

S_close == <<")", ":", " ">>

RECURSIVE ManagementParts(_, _)

\* the entries appended to parts for its[i..]
ManagementParts(its, i) ==
    IF i > Len(its) THEN <<>>
    ELSE (IF its[i].title # <<>> \/ its[i].snippet # <<>>
          THEN S_nlnl \o S_Result \o IntToStr(i) \o S_open \o its[i].search_query
               \o S_close \o its[i].title \o S_nl \o its[i].snippet \o S_URL
               \o its[i].link
          ELSE <<>>)
         \o ManagementParts(its, i + 1)

\* a plausible slip: without results the builder returns the empty string
_build_management_search_context_emptyOnNone(comp, ctry, n, subs) ==
    LET term == SearchTerm(comp, ctry)
        its == google_search_manager(term, n, subs)
    IN  IF its = <<>> THEN <<>>
        ELSE S_SearchMgmt \o term \o ManagementParts(ShownOf(its, n * 2), 1)

\* _build_management_search_context(company, country, n), given what the
\* google_search calls of google_search_manager returned
_build_management_search_context(comp, ctry, n, subs) ==
    LET term == SearchTerm(comp, ctry)
        its == google_search_manager(term, n, subs)
    IN  S_SearchMgmt \o term \o ManagementParts(ShownOf(its, n * 2), 1)

(***************************************************************************)
(* One extraction: query_contact, query_management or query_composite on   *)
(* a search provider that holds xitems for every query of the call.        *)
(***************************************************************************)
S_CONTACT_CONTEXT == <<"C","O","N","T","A","C","T"," ","C","O","N","T","E","X","T","\n">>

S_MANAGEMENT_CONTEXT == <<"\n","\n","M","A","N","A","G","E","M","E","N","T"," ","C","O","N","T","E","X","T","\n">>

\* the local context of query_composite
composite_context(comp, ctry, its, subs) ==
    S_CONTACT_CONTEXT \o _build_contact_search_context(comp, ctry, DefaultN, its)
    \o S_MANAGEMENT_CONTEXT \o _build_management_search_context(comp, ctry, DefaultN, subs)

S_1875 == <<"1","8","7","5"," ","F","i","n","a","n","c","e">>

ExtractCompanies == Companies \cup {S_1875}

\* a reply that wraps text in a fence with the json tag
FencedJson(text) == TextReply(S_fence \o S_json \o S_nl \o text \o S_nl \o S_fence)

\* a reply that wraps text in a bare fence
FencedPlain(text) == TextReply(S_fence \o S_nl \o text \o S_nl \o S_fence)

\* the outcomes of the chat_once call of _llm_json in query_management and
\* query_composite: failures, texts that are no JSON, every document, and
\* every document in a fence
ExtractReplies ==
    {RaiseReply, NoneReply, TextReply(<<>>), TextReply(S_prose), FencedJson(S_prose)}
    \cup {TextReply(<<d>>) : d \in DOMAIN JsonDocs}
    \cup {FencedJson(<<d>>) : d \in DOMAIN JsonDocs}
    \cup {FencedPlain(<<d>>) : d \in DOMAIN JsonDocs}

\* the search provider's answers during one extraction
ExtractItems ==
    {<<>>,
     <<[title |-> T_Kontakt, snippet |-> S_snippet, link |-> U_kontakt]>>,
     <<[title |-> T_Contact, snippet |-> S_snippet, link |-> U_LinkedIn],
       [title |-> T_plain, snippet |-> S_snippet, link |-> U_home]>>}

InitExtract ==
    /\ company \in ExtractCompanies
    /\ country \in Countries
    /\ xpc = "start"
    /\ profile = "none"
    /\ xitems = <<>>
    /\ xreply = NoReply
    /\ xreply2 = NoReply
    /\ xcontext = <<>>
    /\ xdata = PyNone
    /\ xrecord = <<>>
    /\ xcalls = <<>>
    /\ DiffIdle
    /\ PickIdle
    /\ ContactIdle
    /\ MainIdle
    /\ SearchIdle
    /\ RobustIdle
    /\ BatchIdle
    /\ ProviderIdle
    /\ UniqueIdle
    /\ PageIdle
    /\ SessionIdle

\* the six google_search calls of google_search_manager each return its
SubsOf(its) == [q \in 1..Len(search_suffixes) |-> its]

\* one call of query_contact
ExtractContact ==
    /\ xpc = "start"
    /\ \E its \in ExtractItems, r1 \in ContactReplies :
       \E r2 \in (IF NeedsFallbackReply(r1) THEN FallbackReplies ELSE {NoReply}) :
          LET run == query_contact(company, country, its, its, r1, r2)
          IN  /\ xitems' = its
              /\ xreply' = r1
              /\ xreply2' = r2
              /\ xcontext' = run.context
              /\ xdata' = run.data
              /\ xrecord' = run.ret
              /\ xcalls' = run.trace
    /\ profile' = "contact"
    /\ xpc' = "done"
    /\ UNCHANGED <<argVars, diffVars, pickVars, contactVars, mainVars, searchVars,
                   robustVars, batchVars, providerVars, uniqueVars, pageVars,
                   sessionVars>>

\* one call of query_management
ExtractManagement ==
    /\ xpc = "start"
    /\ \E its \in ExtractItems, r \in ExtractReplies :
          /\ xitems' = its
          /\ xreply' = r
          /\ xcontext' = _build_management_search_context(company, country,
                                                          DefaultN, SubsOf(its))
          /\ xdata' = _llm_json(r)
          /\ xrecord' = query_management(r)
          /\ xcalls' = <<"google_search_manager", "chat_once">>
    /\ profile' = "management"
    /\ xpc' = "done"
    /\ UNCHANGED <<xreply2, argVars, diffVars, pickVars, contactVars, mainVars,
                   searchVars, robustVars, batchVars, providerVars, uniqueVars,
                   pageVars, sessionVars>>

\* one call of query_composite
ExtractComposite ==
    /\ xpc = "start"
    /\ \E its \in ExtractItems, r \in ExtractReplies :
          /\ xitems' = its
          /\ xreply' = r
          /\ xcontext' = composite_context(company, country, its, SubsOf(its))
          /\ xdata' = _llm_json(r)
          /\ xrecord' = query_composite(company, country, r, its)
          /\ xcalls' = <<"google_search", "google_search_manager", "chat_once">>
                       \o (IF NeedsPicker(composite_result(company, country, r))
                           THEN <<"_guess_contact_page_url">> ELSE <<>>)
    /\ profile' = "composite"
    /\ xpc' = "done"
    /\ UNCHANGED <<xreply2, argVars, diffVars, pickVars, contactVars, mainVars,
                   searchVars, robustVars, batchVars, providerVars, uniqueVars,
                   pageVars, sessionVars>>

NextExtract == ExtractContact \/ ExtractManagement \/ ExtractComposite

SpecExtract == InitExtract /\ [][NextExtract]_vars

(***************************************************************************)
(* Properties of the Structured Extractor.                                 *)
(***************************************************************************)
\* the value the parsed reply holds under key k (null when absent)
Parsed(k) == IF xdata.t = "dict" THEN FieldOf(xdata.m, k) ELSE PyNone

\* C13: in management and composite extraction, when the primary key
\* (cofounder, ceo) is absent or null and the variant key (co_founder, CEO)
\* holds a string, the record carries the variant's value; when both hold
\* strings, the record carries the primary key's value.
C13_KeyVariantsAccepted ==
    (xpc = "done" /\ profile \in {"management", "composite"} /\ xdata.t = "dict") =>
        \A pair \in {<<"cofounder", "co_founder">>, <<"ceo", "CEO">>} :
            /\ (Parsed(pair[1]) = PyNone /\ Parsed(pair[2]).t = "str") =>
                  FieldOf(xrecord, pair[1]) = Parsed(pair[2])
            /\ (Parsed(pair[1]).t = "str" /\ Parsed(pair[2]).t = "str") =>
                  FieldOf(xrecord, pair[1]) = Parsed(pair[1])

\* no JSON document occurs in the text
NoJsonIn(text) == \A i \in 1..Len(text) : text[i] \notin DOMAIN JsonDocs

\* C14: when the LLM call throws, returns no text, or returns text that is
\* not valid JSON, _llm_json returns an empty mapping (it never raises).
C14_LlmJsonNeverRaises ==
    (/\ xpc = "done"
     /\ \/ xreply.kind \in {"raise", "none"}
        \/ xreply.kind = "text" /\ NoJsonIn(xreply.text)) =>
        xdata = PyDict(<<>>)

\* C14's case: the reply is prose, and query_management went on with {}
C14_Witness ==
    /\ xpc = "done"
    /\ profile = "management"
    /\ xreply = TextReply(S_prose)
    /\ xdata = PyDict(<<>>)
    /\ FieldOf(xrecord, "ceo") = PyNone

\* the JSON object texts
ObjectDocs == {d \in DOMAIN JsonDocs : JsonDocs[d].t = "dict"}

\* C15: for every JSON object text J, the reply J in a fence (opening line
\* with or without the json tag, trailing fence) gives the mapping that the
\* reply J itself gives.
C15_FenceStripped ==
    xpc = "done" =>
        \A d \in ObjectDocs :
            xreply \in {TextReply(<<d>>), FencedJson(<<d>>), FencedPlain(<<d>>)} =>
                xdata = JsonDocs[d]

\* C15's case: a fenced reply with the json tag was parsed to its object
C15_Witness ==
    /\ xpc = "done"
    /\ profile = "composite"
    /\ xreply = FencedJson(<<"{\"ceo\": \"J. Doe\", \"co_founder\": \"Jane Doe\"}">>)
    /\ Parsed("ceo") = PyStr(S_JDoe)
    /\ FieldOf(xrecord, "cofounder") = PyStr(S_JaneDoe)

(***************************************************************************)
(* Properties of an extraction when the search provider has no results.    *)
(***************************************************************************)
\* the LLM call gave nothing usable: it failed, or its text holds no JSON,
\* or the empty object
NothingUsable(r) ==
    \/ r.kind \in {"raise", "none", "unused"}
    \/ r.kind = "text" /\ NoJsonIn(r.text)
    \/ r = TextReply(<<"{}">>)

\* the context is one header line, or for query_composite the two labelled
\* header lines, without a result entry
HeaderOnly ==
    /\ ~Contains(xcontext, <<"R","e","s","u","l","t"," ">>)
    /\ profile \in {"contact", "management"} =>
          /\ StartsWith(xcontext, <<"S","e","a","r","c","h">>)
          /\ \A i \in 1..Len(xcontext) : xcontext[i] # "\n"

\* every field that the extraction fills is null
ExtractedFieldsNull ==
    \A i \in 1..Len(xrecord) :
        xrecord[i].k \notin {"company_name", "country"} => xrecord[i].v = PyNone

\* C16: when the search provider returns zero results, the context is the
\* query header line only, and extraction with an LLM that yields nothing
\* usable returns a record whose extracted fields are all null.
C16_ZeroResultsGiveEmptyRecord ==
    (xpc = "done" /\ xitems = <<>>) =>
        /\ HeaderOnly
        /\ (NothingUsable(xreply) /\ NothingUsable(xreply2)) => ExtractedFieldsNull

\* the search term, written from the arguments
TermOfArgs ==
    IF country = PyNone THEN company ELSE company \o <<" ">> \o country.s

\* the header line of the contact context
ContactHeader == <<"S","e","a","r","c","h",":"," ">> \o TermOfArgs \o S_contactQuery

\* the header line of the management context
ManagementHeader == <<"S","e","a","r","c","h"," ","(","m","a","n","a","g","e","m","e","n","t",")",":"," ">> \o TermOfArgs

\* C17 as stated: when no search results are available, the builder
\* returns the empty string.
C17_EmptyContextWhenNoResults ==
    (xpc = "done" /\ xitems = <<>>) => xcontext = <<>>

\* C17 as amended: when no search results are available, the context is
\* the builder's header line and nothing else (for query_composite, the two
\* header lines under their labels); it is never empty.
C17_HeaderWhenNoResults ==
    (xpc = "done" /\ xitems = <<>>) =>
        /\ profile = "contact" => xcontext = ContactHeader
        /\ profile = "management" => xcontext = ManagementHeader
        /\ profile = "composite" =>
              xcontext = <<"C","O","N","T","A","C","T"," ","C","O","N","T","E","X","T","\n">> \o ContactHeader
                         \o <<"\n","\n","M","A","N","A","G","E","M","E","N","T"," ","C","O","N","T","E","X","T","\n">> \o ManagementHeader
        /\ xcontext # <<>>

\* C17's case: query_management found no results for Acme AG in CH
C17_Witness ==
    /\ xpc = "done"
    /\ profile = "management"
    /\ xitems = <<>>
    /\ xcontext = <<"S","e","a","r","c","h"," ","(","m","a","n","a","g","e","m","e","n","t",")",":"," ","A","c","m","e"," ","A","G"," ","C","H">>

(***************************************************************************)
(* One call of a Search Context Builder with a parameter n, on a provider  *)
(* that may return more results than asked for.                            *)
(***************************************************************************)
R_home == [title |-> T_plain, snippet |-> S_snippet, link |-> U_home]

R_kontakt == [title |-> T_Kontakt, snippet |-> S_snippet, link |-> U_kontakt]

R_wiki == [title |-> T_plain, snippet |-> S_snippet, link |-> U_wiki]

\* a result that the provider sent without a link
R_nolink == [title |-> T_Contact, snippet |-> S_snippet, link |-> <<>>]

\* what google_search returns for the contact query
ContactLists ==
    {<<>>, <<R_home>>, <<R_home, R_kontakt>>, <<R_nolink, R_home, R_wiki>>}

\* what google_search returns for one of the first three sub-queries
SubLists ==
    {<<>>, <<R_home>>, <<R_kontakt>>, <<R_nolink>>, <<R_home, R_kontakt>>,
     <<R_kontakt, R_home>>}

\* what google_search returns for one of the last three sub-queries
LateSubLists == {<<>>, <<R_wiki>>}

InitSearch ==
    /\ company \in Companies
    /\ country \in Countries
    /\ spc = "start"
    /\ builder = "none"
    /\ ncap = 0
    /\ sresults = <<>>
    /\ ssubs = <<>>
    /\ managed = <<>>
    /\ sctx = <<>>
    /\ DiffIdle
    /\ PickIdle
    /\ ContactIdle
    /\ MainIdle
    /\ ExtractIdle
    /\ RobustIdle
    /\ BatchIdle
    /\ ProviderIdle
    /\ UniqueIdle
    /\ PageIdle
    /\ SessionIdle

\* _build_contact_search_context(company, country, n)
BuildContact ==
    /\ spc = "start"
    /\ \E n \in 0..MaxCap, its \in ContactLists :
          /\ ncap' = n
          /\ sresults' = its
          /\ sctx' = _build_contact_search_context(company, country, n, its)
    /\ builder' = "contact"
    /\ spc' = "done"
    /\ UNCHANGED <<ssubs, managed, argVars, diffVars, pickVars, contactVars,
                   mainVars, extractVars, robustVars, batchVars, providerVars,
                   uniqueVars, pageVars, sessionVars>>

\* _build_management_search_context(company, country, n), with its call of
\* google_search_manager
BuildManagement ==
    /\ spc = "start"
    /\ \E n \in 0..MaxCap :
       \E s1 \in SubLists, s2 \in SubLists, s3 \in SubLists :
       \E s4 \in LateSubLists, s5 \in LateSubLists, s6 \in LateSubLists :
          LET sb == <<s1, s2, s3, s4, s5, s6>>
          IN  /\ ncap' = n
              /\ ssubs' = sb
              /\ managed' = google_search_manager(SearchTerm(company, country), n, sb)
              /\ sctx' = _build_management_search_context(company, country, n, sb)
    /\ builder' = "management"
    /\ spc' = "done"
    /\ UNCHANGED <<sresults, argVars, diffVars, pickVars, contactVars,
                   mainVars, extractVars, robustVars, batchVars, providerVars,
                   uniqueVars, pageVars, sessionVars>>

NextSearch == BuildContact \/ BuildManagement

SpecSearch == InitSearch /\ [][NextSearch]_vars

(***************************************************************************)
(* Properties of the Search Context Builders and of the management search. *)
(***************************************************************************)
\* the text that opens a result entry of a context
EntryMark == <<"\n","\n","R","e","s","u","l","t"," ">>

\* number of result entries in a context
Entries(text) ==
    Cardinality({i \in 1..(Len(text) - Len(EntryMark) + 1) :
                    \A j \in 1..Len(EntryMark) : text[i + j - 1] = EntryMark[j]})

\* C18: the contact search context holds at most n result entries and the
\* management search context at most 2n, however many results the provider
\* returns.
C18_ContextEntriesCapped ==
    spc = "done" =>
        /\ builder = "contact" => Entries(sctx) <= ncap
        /\ builder = "management" => Entries(sctx) <= 2 * ncap

\* the links of a list of results
Links(list) == [i \in 1..Len(list) |-> list[i].link]

\* the links of all sub-query results, in sub-query order
AllLinks ==
    Links(ssubs[1]) \o Links(ssubs[2]) \o Links(ssubs[3])
    \o Links(ssubs[4]) \o Links(ssubs[5]) \o Links(ssubs[6])

\* C18's case: the provider gave three distinct URLs for n = 1, and the
\* management context shows two entries
C18_Witness ==
    /\ spc = "done"
    /\ builder = "management"
    /\ ncap = 1
    /\ {U_home, U_kontakt, U_wiki} \subseteq RangeOf(AllLinks)
    /\ Entries(sctx) = 2

RECURSIVE FirstOccurrences(_, _)

\* the non-empty elements of seq that are not in seen, each once, in the
\* order of their first occurrence
FirstOccurrences(seq, seen) ==
    IF seq = <<>> THEN <<>>
    ELSE IF Head(seq) = <<>> \/ Head(seq) \in seen
         THEN FirstOccurrences(Tail(seq), seen)
         ELSE <<Head(seq)>> \o FirstOccurrences(Tail(seq), seen \cup {Head(seq)})

\* the first sub-query whose results hold the link
FirstSubQuery(link) ==
    CHOOSE q \in 1..6 :
        /\ link \in RangeOf(Links(ssubs[q]))
        /\ \A p \in 1..(q - 1) : link \notin RangeOf(Links(ssubs[p]))

\* C19: the merged management results hold no URL twice, each URL with the
\* sub-query that found it first, and they are the first 2n of the
\* deduplicated list: duplicates are removed before the cap.
C19_DedupBeforeCap ==
    (spc = "done" /\ builder = "management") =>
        LET dedup == FirstOccurrences(AllLinks, {})
            got   == Links(managed)
            size  == IF Len(dedup) < 2 * ncap THEN Len(dedup) ELSE 2 * ncap
        IN  /\ \A i, j \in 1..Len(got) : i # j => got[i] # got[j]
            /\ got = SubSeq(dedup, 1, size)
            /\ \A i \in 1..Len(managed) :
                  managed[i].search_query =
                     TermOfArgs \o search_suffixes[FirstSubQuery(managed[i].link)]

\* C19's case: the first two sub-queries found the same URL, and the two
\* slots of n = 1 went to two distinct URLs
C19_Witness ==
    /\ spc = "done"
    /\ builder = "management"
    /\ ncap = 1
    /\ Len(AllLinks) >= 3
    /\ AllLinks[1] = AllLinks[2]
    /\ Len(managed) = 2
    /\ managed[1].link # managed[2].link

(***************************************************************************)
(* Properties of the single-merged record.                                 *)
(***************************************************************************)
\* C20 as stated: query_single_then_merge returns company_name and country
\* equal to the input company and country, whatever the LLM replies.
C20_MergedEchoesInputs ==
    mpc \in {"merged", "composite", "done"} =>
        /\ FieldOf(merged_single, "company_name") = PyStr(company)
        /\ FieldOf(merged_single, "country") = country

\* C20 as amended: company_name is the input company, and country is the
\* input country, or the empty string when the input country is null,
\* whatever the LLM replies.
C20_MergedDefaultsToInputs ==
    mpc \in {"merged", "composite", "done"} =>
        /\ FieldOf(merged_single, "company_name") = PyStr(company)
        /\ FieldOf(merged_single, "country") =
              (IF country = PyNone THEN PyStr(<<>>) ELSE country)

\* C20's case: no country was given, the LLM named a ceo, and the record's
\* country is the empty string
C20_Witness ==
    /\ mpc = "merged"
    /\ country = PyNone
    /\ FieldOf(merged_single, "ceo") = PyStr(S_JaneDoe)
    /\ FieldOf(merged_single, "company_name") = PyStr(S_Acme)
    /\ FieldOf(merged_single, "country") = PyStr(<<>>)

(***************************************************************************)
(* Properties of query_composite.                                          *)
(***************************************************************************)
\* C21 as stated: query_composite returns the LLM's company_name and
\* country whenever they are non-null strings, and the input company and
\* country for whichever the LLM returned as null, missing or non-string.
C21_CompositePrefersLlmNames ==
    (xpc = "done" /\ profile = "composite") =>
        /\ FieldOf(xrecord, "company_name") =
              (IF Parsed("company_name").t = "str" THEN Parsed("company_name")
               ELSE PyStr(company))
        /\ FieldOf(xrecord, "country") =
              (IF Parsed("country").t = "str" THEN Parsed("country") ELSE country)

\* C21 as amended: query_composite returns the LLM's company_name and
\* country whenever they are non-empty strings; otherwise it returns the
\* input company, and the input country or the empty string when the input
\* country is null.
C21_CompositePrefersNonEmptyLlmNames ==
    (xpc = "done" /\ profile = "composite") =>
        /\ FieldOf(xrecord, "company_name") =
              (IF NonEmptyStr(Parsed("company_name")) THEN Parsed("company_name")
               ELSE PyStr(company))
        /\ FieldOf(xrecord, "country") =
              (IF NonEmptyStr(Parsed("country")) THEN Parsed("country")
               ELSE IF country = PyNone THEN PyStr(<<>>) ELSE country)

\* C21's case: for 1875 Finance without country the LLM named Acme AG in CH
C21_Witness ==
    /\ xpc = "done"
    /\ profile = "composite"
    /\ company = S_1875
    /\ country = PyNone
    /\ Parsed("company_name") = PyStr(S_Acme)
    /\ FieldOf(xrecord, "company_name") = PyStr(S_Acme)
    /\ FieldOf(xrecord, "country") = PyStr(S_CH)

\* the Contact Page Picker was called during the extraction
PickerConsulted ==
    \E i \in 1..Len(xcalls) : xcalls[i] = "_guess_contact_page_url"

\* C22 as stated: query_composite returns the LLM's company_contact_page
\* unchanged when the LLM returned one, and consults the Contact Page
\* Picker, returning the picker's result, exactly when the LLM's
\* company_contact_page is null.
C22_PickerIffLlmPageNull ==
    (xpc = "done" /\ profile = "composite") =>
        /\ PickerConsulted <=> (Parsed("company_contact_page") = PyNone)
        /\ IF Parsed("company_contact_page") = PyNone
           THEN FieldOf(xrecord, "company_contact_page")
                    = _guess_contact_page_url(xitems)
           ELSE FieldOf(xrecord, "company_contact_page")
                    = Parsed("company_contact_page")

\* C22: query_composite returns the LLM's company_contact_page unchanged
\* when it is a non-empty string, and consults the Contact Page Picker,
\* returning the picker's result, exactly when the LLM's
\* company_contact_page is null, missing, not a string or the empty string.
C22_PickerIffNoLlmPage ==
    (xpc = "done" /\ profile = "composite") =>
        /\ PickerConsulted <=> ~NonEmptyStr(Parsed("company_contact_page"))
        /\ IF NonEmptyStr(Parsed("company_contact_page"))
           THEN FieldOf(xrecord, "company_contact_page")
                    = Parsed("company_contact_page")
           ELSE FieldOf(xrecord, "company_contact_page")
                    = _guess_contact_page_url(xitems)

C22_Witness ==
    /\ xpc = "done"
    /\ profile = "composite"
    /\ xdata.t = "dict"
    /\ Parsed("company_contact_page") = PyStr(<<>>)
    /\ PickerConsulted
    /\ FieldOf(xrecord, "company_contact_page") = PyStr(U_kontakt)

(***************************************************************************)
(* The lookups with their search provider: google_search on what the       *)
(* provider answers, and the four operations on top of it.                 *)
(***************************************************************************)
\* what the provider answers to a request: a JSON object with items, a
\* failure (timeout, HTTP error status, a body that is no JSON), or a JSON
\* body that is not an object
SearchBodies ==
    {[kind |-> "object", items |-> its] : its \in ExtractItems}
    \cup {[kind |-> "error", items |-> <<>>],
          [kind |-> "nonobject", items |-> <<>>]}

\* google_search: without key or cx no request is made and [] is returned
\* (kind "nokey"); the request, raise_for_status and res.json() are inside
\* the try and a failure there gives []; data.get("items", []) is after it,
\* and raises AttributeError when data is not a dict
google_search(body) ==
    IF body.kind = "nonobject" THEN [raised |-> TRUE, items |-> <<>>]
    ELSE IF body.kind \in {"nokey", "error"} THEN [raised |-> FALSE, items |-> <<>>]
    ELSE [raised |-> FALSE, items |-> body.items]

\* the results of the six google_search calls of google_search_manager: a
\* call that raises is caught in the loop and contributes nothing
manager_subs(body) ==
    [q \in 1..Len(search_suffixes) |->
        IF google_search(body).raised THEN <<>> ELSE google_search(body).items]

\* query_contact: google_search is called by _build_contact_search_context
\* and by _guess_contact_page_url, outside any try
query_contact_outcome(comp, ctry, body, r1, r2) ==
    IF google_search(body).raised
    THEN [raised |-> TRUE, ret |-> <<>>]
    ELSE [raised |-> FALSE,
          ret |-> query_contact(comp, ctry, google_search(body).items,
                                google_search(body).items, r1, r2).ret]

\* query_management: its only searches are google_search_manager's
query_management_outcome(comp, ctry, body, rm) ==
    [raised |-> FALSE, ret |-> query_management(rm)]

\* query_composite: _build_contact_search_context is called first
query_composite_outcome(comp, ctry, body, r) ==
    IF google_search(body).raised
    THEN [raised |-> TRUE, ret |-> <<>>]
    ELSE [raised |-> FALSE,
          ret |-> query_composite(comp, ctry, r, google_search(body).items)]

\* query_single_then_merge: query_contact is called first
query_single_then_merge_outcome(comp, ctry, body, r1, r2, rm) ==
    IF query_contact_outcome(comp, ctry, body, r1, r2).raised
    THEN [raised |-> TRUE, ret |-> <<>>]
    ELSE [raised |-> FALSE,
          ret |-> query_single_then_merge(comp, ctry, google_search(body).items,
                                          google_search(body).items, r1, r2, rm)]

\* the outcomes of a chat_once call: an exception, no content, prose, an
\* empty object, an object with values
RobustReplies ==
    {RaiseReply, NoneReply, TextReply(S_prose), TextReply(<<"{}">>),
     TextReply(<<"{\"company_email\": \"info@acme.ch\", \"company_phone\": null}">>),
     TextReply(<<"{\"CEO\": \"Jane Doe\"}">>)}

InitRobust ==
    /\ company \in Companies
    /\ country \in Countries
    /\ rpc = "start"
    /\ rop = "none"
    /\ rbody = [kind |-> "none", items |-> <<>>]
    /\ rreply = NoReply
    /\ rreply2 = NoReply
    /\ rreplym = NoReply
    /\ rout = [raised |-> FALSE, ret |-> <<>>]
    /\ DiffIdle
    /\ PickIdle
    /\ ContactIdle
    /\ MainIdle
    /\ ExtractIdle
    /\ SearchIdle
    /\ BatchIdle
    /\ ProviderIdle
    /\ UniqueIdle
    /\ PageIdle
    /\ SessionIdle

\* one call of query_contact
LookupContact ==
    /\ rpc = "start"
    /\ \E body \in SearchBodies, r1 \in RobustReplies :
       \E r2 \in (IF NeedsFallbackReply(r1) THEN FallbackReplies ELSE {NoReply}) :
          /\ rbody' = body
          /\ rreply' = r1
          /\ rreply2' = r2
          /\ rout' = query_contact_outcome(company, country, body, r1, r2)
    /\ rop' = "query_contact"
    /\ rpc' = "done"
    /\ UNCHANGED <<rreplym, argVars, diffVars, pickVars, contactVars, mainVars,
                   extractVars, searchVars, batchVars, providerVars,
                   uniqueVars, pageVars, sessionVars>>

\* one call of query_management
LookupManagement ==
    /\ rpc = "start"
    /\ \E body \in SearchBodies, rm \in RobustReplies :
          /\ rbody' = body
          /\ rreplym' = rm
          /\ rout' = query_management_outcome(company, country, body, rm)
    /\ rop' = "query_management"
    /\ rpc' = "done"
    /\ UNCHANGED <<rreply, rreply2, argVars, diffVars, pickVars, contactVars,
                   mainVars, extractVars, searchVars, batchVars, providerVars,
                   uniqueVars, pageVars, sessionVars>>

\* one call of query_composite
LookupComposite ==
    /\ rpc = "start"
    /\ \E body \in SearchBodies, r \in RobustReplies :
          /\ rbody' = body
          /\ rreplym' = r
          /\ rout' = query_composite_outcome(company, country, body, r)
    /\ rop' = "query_composite"
    /\ rpc' = "done"
    /\ UNCHANGED <<rreply, rreply2, argVars, diffVars, pickVars, contactVars,
                   mainVars, extractVars, searchVars, batchVars, providerVars,
                   uniqueVars, pageVars, sessionVars>>

\* one call of query_single_then_merge
LookupSingleThenMerge ==
    /\ rpc = "start"
    /\ \E body \in SearchBodies, r1 \in RobustReplies, rm \in RobustReplies :
       \E r2 \in (IF NeedsFallbackReply(r1) THEN FallbackReplies ELSE {NoReply}) :
          /\ rbody' = body
          /\ rreply' = r1
          /\ rreply2' = r2
          /\ rreplym' = rm
          /\ rout' = query_single_then_merge_outcome(company, country, body,
                                                     r1, r2, rm)
    /\ rop' = "query_single_then_merge"
    /\ rpc' = "done"
    /\ UNCHANGED <<argVars, diffVars, pickVars, contactVars, mainVars,
                   extractVars, searchVars, batchVars, providerVars,
                   uniqueVars, pageVars, sessionVars>>

NextRobust ==
    LookupContact \/ LookupManagement \/ LookupComposite \/ LookupSingleThenMerge

SpecRobust == InitRobust /\ [][NextRobust]_vars

(***************************************************************************)
(* Properties of the lookups under failures.                               *)
(***************************************************************************)
\* the chat_once call gave nothing usable
Unusable(r) ==
    r.kind \in {"raise", "none"} \/ (r.kind = "text" /\ r.text = S_prose)

\* the search request gave nothing usable
SearchFailed == rbody.kind \in {"error", "nonobject"}

\* C23: query_contact, query_management, query_composite and
\* query_single_then_merge never raise: when a search request or an LLM
\* call fails, the operation still returns a record, and the fields that
\* depend on the failed call are null.
C23_LookupsNeverRaise ==
    rpc = "done" =>
        /\ ~rout.raised
        /\ (rop \in {"query_management", "query_composite"} /\ Unusable(rreplym)) =>
               \A k \in {"ceo", "ceo_email", "ceo_phone", "cofounder",
                         "cofounder_email", "cofounder_phone"} :
                   FieldOf(rout.ret, k) = PyNone
        /\ (rop \in {"query_contact", "query_composite"} /\ SearchFailed) =>
               FieldOf(rout.ret, "company_contact_page") = PyNone

(***************************************************************************)
(* Batch enrichment: steps 2 and 3 of main, with                           *)
(* enhance_company_info_with_perplexity and its helpers.                   *)
(***************************************************************************)
\* number of companies in a batch
MaxCompanies == 2

\* company[k] = v
SetKey(d, k, v) ==
    IF k \in KeySet(d)
    THEN [i \in 1..Len(d) |-> IF d[i].k = k THEN [k |-> k, v |-> v] ELSE d[i]]
    ELSE Append(d, [k |-> k, v |-> v])

S_swfphone == <<"+","4","1"," ","5","8"," ","0","0","0"," ","0","0"," ","0","0">>

U_swf == <<"h","t","t","p","s",":","/","/","d","e","v",".","s","w","f","i","n","s","t","i","t","u","t","e",".","o","r","g","/","p","r","o","f","i","l","e","/","a","c","m","e">>

S_Beta == <<" ","B","e","t","a"," ">>

\* what fetch_profile_attributes returns for a profile page: {} (also on
\* any failure), or the attributes with a Phone
ProfileAttrs == {<<>>, <<[k |-> "Phone", v |-> PyStr(S_swfphone)]>>}

\* enhance_companies_with_swf_phone(companies, True), given what
\* fetch_profile_attributes returns for each company
enhance_companies_with_swf_phone(companies, attrs) ==
    [i \in 1..Len(companies) |->
        IF Truthy(Get(companies[i], "company_phone"))
           \/ ~Truthy(Get(companies[i], "swf_url"))
        THEN companies[i]
        ELSE IF "Phone" \in KeySet(attrs[i])
             THEN SetKey(companies[i], "company_phone", Get(attrs[i], "Phone"))
             ELSE companies[i]]

\* _ppx_call, given the outcome of perplexity_generate_text: {} when it
\* raises, else _safe_json_loads of the text of its result
_ppx_call(reply) ==
    IF reply.kind = "raise" THEN PyDict(<<>>)
    ELSE LET res == IF reply.kind = "text" THEN reply.text ELSE <<>>
             text == strip(res)
             bare == StripChars(text, {Backtick, "\n", " "})
             body == IF StartsWith(text, S_fence)
                     THEN IF StartsWith(bare, S_json)
                          THEN LStripChars(Slice(bare, 5, Len(bare)), {"\n"})
                          ELSE bare
                     ELSE text
             parsed == json_loads(body)
         IN  IF parsed.ok THEN parsed.v ELSE PyDict(<<>>)

\* _ppx_contact, given the outcome of perplexity_generate_text
_ppx_contact(reply) ==
    LET d == _ppx_call(reply)
    IN  <<[k |-> "company_email", v |-> _get(d, "company_email")],
          [k |-> "company_phone", v |-> _get(d, "company_phone")],
          [k |-> "company_contact_page", v |-> _get(d, "company_contact_page")]>>

\* _ppx_management, given the outcome of perplexity_generate_text
_ppx_management(reply) ==
    LET d == _ppx_call(reply)
    IN  <<[k |-> "ceo", v |-> PyOr(_get(d, "ceo"), _get(d, "CEO"))],
          [k |-> "ceo_email", v |-> _get(d, "ceo_email")],
          [k |-> "ceo_phone", v |-> _get(d, "ceo_phone")],
          [k |-> "cofounder", v |-> PyOr(_get(d, "cofounder"), _get(d, "co_founder"))],
          [k |-> "cofounder_email", v |-> _get(d, "cofounder_email")],
          [k |-> "cofounder_phone", v |-> _get(d, "cofounder_phone")]>>

\* a plausible slip: the row lacks the contact page
ppx_merge_single_results_noPage(comp, ctry, cont, mgmt) ==
    <<[k |-> "company_name", v |-> PyStr(comp)],
      [k |-> "country", v |-> PyOr(ctry, PyStr(<<>>))],
      [k |-> "ceo", v |-> GetIf(mgmt, "ceo")],
      [k |-> "company_email", v |-> GetIf(cont, "company_email")],
      [k |-> "company_phone", v |-> GetIf(cont, "company_phone")],
      [k |-> "ceo_email", v |-> GetIf(mgmt, "ceo_email")],
      [k |-> "ceo_phone", v |-> GetIf(mgmt, "ceo_phone")],
      [k |-> "cofounder", v |-> GetIf(mgmt, "cofounder")],
      [k |-> "cofounder_email", v |-> GetIf(mgmt, "cofounder_email")],
      [k |-> "cofounder_phone", v |-> GetIf(mgmt, "cofounder_phone")]>>

\* _merge_single_results of enhance_info_with_perplexity.py
ppx_merge_single_results(comp, ctry, cont, mgmt) ==
    <<[k |-> "company_name", v |-> PyStr(comp)],
      [k |-> "country", v |-> PyOr(ctry, PyStr(<<>>))],
      [k |-> "ceo", v |-> GetIf(mgmt, "ceo")],
      [k |-> "company_email", v |-> GetIf(cont, "company_email")],
      [k |-> "company_contact_page", v |-> GetIf(cont, "company_contact_page")],
      [k |-> "company_phone", v |-> GetIf(cont, "company_phone")],
      [k |-> "ceo_email", v |-> GetIf(mgmt, "ceo_email")],
      [k |-> "ceo_phone", v |-> GetIf(mgmt, "ceo_phone")],
      [k |-> "cofounder", v |-> GetIf(mgmt, "cofounder")],
      [k |-> "cofounder_email", v |-> GetIf(mgmt, "cofounder_email")],
      [k |-> "cofounder_phone", v |-> GetIf(mgmt, "cofounder_phone")]>>

\* if not isinstance(name, str) or not name.strip(): continue
SkipsItem(item) ==
    LET name == Get(item, "company_name")
    IN  name.t # "str" \/ strip(name.s) = <<>>

\* the outcomes of perplexity_generate_text in _ppx_contact: an exception,
\* a phone, an email
PpxContactReplies ==
    {RaiseReply,
     TextReply(<<"{\"company_email\": null, \"company_phone\": \"+41 44 123 45 67\"}">>),
     TextReply(<<"{\"company_email\": \"info@acme.ch\", \"company_phone\": null}">>)}

\* the outcomes of perplexity_generate_text in _ppx_management
PpxManagementReplies ==
    {RaiseReply,
     FencedJson(<<"{\"ceo\": \"J. Doe\", \"co_founder\": \"Jane Doe\"}">>)}

\* what _ppx_contact and _ppx_management return for each outcome
PpxContacts == [rc \in PpxContactReplies |-> _ppx_contact(rc)]

PpxManagements == [rm \in PpxManagementReplies |-> _ppx_management(rm)]

\* the row one iteration of enhance_company_info_with_perplexity appends
ppx_row(item, rc, rm) ==
    LET name == Get(item, "company_name")
        ctry == IF Get(item, "country").t = "str" THEN Get(item, "country")
                ELSE PyNone
    IN  ppx_merge_single_results(strip(name.s), ctry, PpxContacts[rc],
                                 PpxManagements[rm])

\* the company dicts main hands to step 2
BatchItems ==
    {<<[k |-> "company_name", v |-> PyStr(S_Acme)],
       [k |-> "country", v |-> PyStr(S_CH)],
       [k |-> "swf_url", v |-> PyStr(U_swf)]>>,
     <<[k |-> "company_name", v |-> PyStr(S_Beta)],
       [k |-> "country", v |-> PyNone]>>,
     <<[k |-> "company_name", v |-> PyStr(<<" ">>)],
       [k |-> "country", v |-> PyStr(S_CH)]>>,
     <<[k |-> "company_name", v |-> PyStr(S_1875)],
       [k |-> "country", v |-> PyStr(S_CH)],
       [k |-> "company_phone", v |-> PyStr(S_phone)],
       [k |-> "swf_url", v |-> PyStr(U_swf)]>>}

\* main after step 1
InitBatch ==
    /\ wpc = "step2"
    /\ selected \in SeqsUpTo(BatchItems, MaxCompanies)
    /\ after_swf = <<>>
    /\ widx = 0
    /\ results = <<>>
    /\ wcalls = <<>>
    /\ DiffIdle
    /\ PickIdle
    /\ ArgsIdle
    /\ ContactIdle
    /\ MainIdle
    /\ ExtractIdle
    /\ SearchIdle
    /\ RobustIdle
    /\ ProviderIdle
    /\ UniqueIdle
    /\ PageIdle
    /\ SessionIdle

\* step 2: selected = enhance_companies_with_swf_phone(selected, True)
SwfPhoneStep ==
    /\ wpc = "step2"
    /\ \E attrs \in [1..Len(selected) -> ProfileAttrs] :
          /\ selected' = enhance_companies_with_swf_phone(selected, attrs)
          /\ after_swf' = enhance_companies_with_swf_phone(selected, attrs)
    /\ wpc' = "step3"
    /\ widx' = 1
    /\ UNCHANGED <<results, wcalls, argVars, diffVars, pickVars, contactVars,
                   mainVars, extractVars, searchVars, robustVars, providerVars,
                   uniqueVars, pageVars, sessionVars>>

\* step 3: one iteration of the loop of
\* enhance_company_info_with_perplexity
PpxCompany ==
    /\ wpc = "step3"
    /\ widx <= Len(selected)
    /\ \E rc \in PpxContactReplies, rm \in PpxManagementReplies :
          /\ results' = IF SkipsItem(selected[widx]) THEN results
                        ELSE Append(results, ppx_row(selected[widx], rc, rm))
          /\ wcalls' = IF SkipsItem(selected[widx]) THEN wcalls
                       ELSE Append(wcalls, [c |-> rc, m |-> rm])
    /\ widx' = widx + 1
    /\ UNCHANGED <<wpc, selected, after_swf, argVars, diffVars, pickVars,
                   contactVars, mainVars, extractVars, searchVars, robustVars,
                   providerVars, uniqueVars, pageVars, sessionVars>>

\* step 3: the loop is over, enhance_companies_with_perplexity returns and
\* main assigns selected (an empty list is returned as it is)
PpxReturn ==
    /\ wpc = "step3"
    /\ widx > Len(selected)
    /\ selected' = results
    /\ wpc' = "done"
    /\ UNCHANGED <<after_swf, widx, results, wcalls, argVars, diffVars, pickVars,
                   contactVars, mainVars, extractVars, searchVars, robustVars,
                   providerVars, uniqueVars, pageVars, sessionVars>>

NextBatch == SwfPhoneStep \/ PpxCompany \/ PpxReturn

SpecBatch == InitBatch /\ [][NextBatch]_vars /\ WF_vars(NextBatch)

(***************************************************************************)
(* Properties of the batch enrichment.                                     *)
(***************************************************************************)
\* the item has a non-blank string name
HasName(item) ==
    /\ FieldOf(item, "company_name").t = "str"
    /\ \E i \in 1..Len(FieldOf(item, "company_name").s) :
          FieldOf(item, "company_name").s[i] # " "

\* the items with a name, in input order
NamedItems == SelectSeq(after_swf, HasName)

\* the name without the blanks around it
Trimmed(name) ==
    LET inner == {i \in 1..Len(name) : name[i] # " "}
    IN  SubSeq(name, CHOOSE i \in inner : \A j \in inner : i <= j,
                     CHOOSE i \in inner : \A j \in inner : i >= j)

EnrichmentKeys ==
    {"ceo", "company_email", "company_contact_page", "company_phone",
     "ceo_email", "ceo_phone", "cofounder", "cofounder_email",
     "cofounder_phone"}

\* at the end there is one complete row per named item, in input order, and
\* a company whose calls all failed has null enrichment fields
RowsComplete ==
    /\ Len(selected) = Len(NamedItems)
    /\ \A j \in 1..Len(selected) :
          /\ [i \in 1..Len(selected[j]) |-> selected[j][i].k] = COMPOSITE_KEYS
          /\ FieldOf(selected[j], "company_name")
                 = PyStr(Trimmed(FieldOf(NamedItems[j], "company_name").s))
          /\ (wcalls[j].c.kind = "raise" /\ wcalls[j].m.kind = "raise") =>
                 \A k \in EnrichmentKeys : FieldOf(selected[j], k) = PyNone

\* C24: a batch enrichment run over N companies always terminates, and then
\* there is one complete 11-key row per input item with a non-blank company
\* name, in input order; a company whose external calls all fail yields a
\* row with null enrichment fields and does not prevent the later ones.
C24_BatchProcessesEveryCompany ==
    /\ <>(wpc = "done")
    /\ [](wpc = "done" => RowsComplete)

C24_Witness ==
    /\ wpc = "done"
    /\ Len(after_swf) = 2
    /\ Len(selected) = 2
    /\ wcalls[1].c.kind = "raise"
    /\ wcalls[1].m.kind = "raise"
    /\ FieldOf(selected[1], "company_name") = PyStr(S_Acme)
    /\ FieldOf(selected[2], "company_name") = PyStr(<<"B","e","t","a">>)
    /\ FieldOf(selected[2], "ceo") = PyStr(S_JDoe)

EnvStates == {"ok", "missing", "wrong"}

\* what a search request gives under the search configuration: no request
\* without key or cx, an HTTP error status for a rejected key
BodiesUnder(env) ==
    IF env = "missing" THEN {[kind |-> "nokey", items |-> <<>>]}
    ELSE IF env = "wrong" THEN {[kind |-> "error", items |-> <<>>]}
    ELSE {[kind |-> "object", items |-> its] : its \in ExtractItems}

\* what chat_once gives under the LLM configuration: the client raises
\* when the provider rejects the credentials
RepliesUnder(env) == IF env = "wrong" THEN {RaiseReply} ELSE RobustReplies

InitProvider ==
    /\ company \in ExtractCompanies
    /\ country \in Countries
    /\ vpc = "start"
    /\ llm_env \in EnvStates
    /\ search_env \in EnvStates
    /\ vop = "none"
    /\ vbody = [kind |-> "none", items |-> <<>>]
    /\ vreply = NoReply
    /\ vreply2 = NoReply
    /\ vreplym = NoReply
    /\ vout = [raised |-> FALSE, ret |-> <<>>]
    /\ DiffIdle
    /\ PickIdle
    /\ ContactIdle
    /\ MainIdle
    /\ ExtractIdle
    /\ SearchIdle
    /\ RobustIdle
    /\ BatchIdle
    /\ UniqueIdle
    /\ PageIdle
    /\ SessionIdle

\* import company_query_compare: line 29 imports utils.llm, whose
\* module-level check raises EnvironmentError when a variable is missing
ImportModules ==
    /\ vpc = "start"
    /\ vpc' = IF llm_env = "missing" THEN "failed" ELSE "imported"
    /\ vout' = IF llm_env = "missing" THEN [raised |-> TRUE, ret |-> <<>>]
               ELSE vout
    /\ UNCHANGED <<llm_env, search_env, vop, vbody, vreply, vreply2, vreplym,
                   argVars, diffVars, pickVars, contactVars, mainVars,
                   extractVars, searchVars, robustVars, batchVars, uniqueVars,
                   pageVars, sessionVars>>

\* one call of query_single_then_merge
ProviderSingleThenMerge ==
    /\ vpc = "imported"
    /\ \E body \in BodiesUnder(search_env), r1 \in RepliesUnder(llm_env),
          rm \in RepliesUnder(llm_env) :
       \E r2 \in (IF ~NeedsFallbackReply(r1) THEN {NoReply}
                  ELSE IF llm_env = "wrong" THEN {RaiseReply}
                  ELSE FallbackReplies) :
          /\ vbody' = body
          /\ vreply' = r1
          /\ vreply2' = r2
          /\ vreplym' = rm
          /\ vout' = query_single_then_merge_outcome(company, country, body,
                                                     r1, r2, rm)
    /\ vop' = "query_single_then_merge"
    /\ vpc' = "done"
    /\ UNCHANGED <<llm_env, search_env, argVars, diffVars, pickVars,
                   contactVars, mainVars, extractVars, searchVars, robustVars,
                   batchVars, uniqueVars, pageVars, sessionVars>>

\* one call of query_composite
ProviderComposite ==
    /\ vpc = "imported"
    /\ \E body \in BodiesUnder(search_env), r \in RepliesUnder(llm_env) :
          /\ vbody' = body
          /\ vreplym' = r
          /\ vout' = query_composite_outcome(company, country, body, r)
    /\ vop' = "query_composite"
    /\ vpc' = "done"
    /\ UNCHANGED <<llm_env, search_env, vreply, vreply2, argVars, diffVars,
                   pickVars, contactVars, mainVars, extractVars, searchVars,
                   robustVars, batchVars, uniqueVars, pageVars, sessionVars>>

NextProvider == ImportModules \/ ProviderSingleThenMerge \/ ProviderComposite

SpecProvider == InitProvider /\ [][NextProvider]_vars

(***************************************************************************)
(* Properties under a provider configuration.                              *)
(***************************************************************************)
\* C25: when the search provider's or the LLM provider's credentials are
\* missing or misconfigured, a company lookup is not fatal: it completes
\* and yields a record, whose management fields are null when the LLM is
\* unavailable, and whose extracted fields are all null when neither
\* provider is available.
C25_ProviderUnavailableNotFatal ==
    /\ vpc # "failed"
    /\ vpc = "done" =>
          /\ ~vout.raised
          /\ llm_env # "ok" =>
                \A k \in {"ceo", "ceo_email", "ceo_phone", "cofounder",
                          "cofounder_email", "cofounder_phone"} :
                    FieldOf(vout.ret, k) = PyNone
          /\ (llm_env # "ok" /\ search_env # "ok") =>
                \A k \in EnrichmentKeys : FieldOf(vout.ret, k) = PyNone

(***************************************************************************)
(* Deduplication of the seed list: _unique_by_company.                     *)
(***************************************************************************)
\* number of entries of the list handed to _unique_by_company
MaxEntries == 3

\* a plausible slip: the key keeps the case of the name
unique_key_noLower(name) ==
    IF name.t = "str" THEN PyStr(strip(name.s)) ELSE PyNone

\* key = name.strip().lower() if isinstance(name, str) else None
unique_key(name) ==
    IF name.t = "str" THEN PyStr(lower(strip(name.s))) ELSE PyNone

\* the loop of _unique_by_company over the remaining items, with its locals
\* seen and out
RECURSIVE unique_loop(_, _, _)
unique_loop(rest, seen, kept) ==
    IF rest = <<>> THEN kept
    ELSE LET key == unique_key(Get(Head(rest), "company_name"))
         IN  IF ~Truthy(key) \/ key \in seen
             THEN unique_loop(Tail(rest), seen, kept)
             ELSE unique_loop(Tail(rest), seen \cup {key}, Append(kept, Head(rest)))

_unique_by_company(its) == unique_loop(its, {}, <<>>)

S_acme_lower == <<"a","c","m","e"," ","a","g"," ">>

\* the entries collected from the listing pages
SeedEntries ==
    {<<[k |-> "company_name", v |-> PyStr(S_Acme)], [k |-> "country", v |-> PyStr(S_CH)]>>,
     <<[k |-> "company_name", v |-> PyStr(S_acme_lower)], [k |-> "country", v |-> PyNone]>>,
     <<[k |-> "company_name", v |-> PyStr(S_Beta)], [k |-> "country", v |-> PyNone]>>,
     <<[k |-> "company_name", v |-> PyStr(<<" ">>)], [k |-> "country", v |-> PyStr(S_CH)]>>,
     <<[k |-> "company_name", v |-> PyNone], [k |-> "country", v |-> PyStr(S_CH)]>>}

InitUnique ==
    /\ upc = "start"
    /\ uitems \in SeqsUpTo(SeedEntries, MaxEntries)
    /\ uout = <<>>
    /\ DiffIdle
    /\ PickIdle
    /\ ArgsIdle
    /\ ContactIdle
    /\ MainIdle
    /\ ExtractIdle
    /\ SearchIdle
    /\ RobustIdle
    /\ BatchIdle
    /\ ProviderIdle
    /\ PageIdle
    /\ SessionIdle

\* all_companies = _unique_by_company(all_companies)
DoUnique ==
    /\ upc = "start"
    /\ uout' = _unique_by_company(uitems)
    /\ upc' = "done"
    /\ UNCHANGED <<uitems, argVars, diffVars, pickVars, contactVars, mainVars,
                   extractVars, searchVars, robustVars, batchVars, providerVars,
                   pageVars, sessionVars>>

NextUnique == DoUnique

SpecUnique == InitUnique /\ [][NextUnique]_vars

(***************************************************************************)
(* Properties of _unique_by_company.                                       *)
(***************************************************************************)
\* the name of an entry, trimmed and lowercased
NameKey(e) == lower(Trimmed(FieldOf(e, "company_name").s))

\* the positions of the entries that are the first with their name
FirstOfName ==
    {i \in 1..Len(uitems) :
        /\ HasName(uitems[i])
        /\ \A j \in 1..(i - 1) :
              ~(HasName(uitems[j]) /\ NameKey(uitems[j]) = NameKey(uitems[i]))}

\* C26: after _unique_by_company no two entries have names equal after
\* trimming and lowercasing, the kept entries are the first occurrences of
\* their names in input order, and entries without a non-blank string name
\* are dropped.
C26_UniqueByCompany ==
    upc = "done" =>
        /\ \A i, j \in 1..Len(uout) :
              i # j => NameKey(uout[i]) # NameKey(uout[j])
        /\ \A i \in 1..Len(uout) : HasName(uout[i])
        /\ Len(uout) = Cardinality(FirstOfName)
        /\ \A i \in FirstOfName :
              uout[Cardinality({j \in FirstOfName : j <= i})] = uitems[i]

C26_Witness ==
    /\ upc = "done"
    /\ Len(uitems) = 3
    /\ FieldOf(uitems[1], "company_name") = PyNone
    /\ FieldOf(uitems[2], "company_name") = PyStr(S_acme_lower)
    /\ FieldOf(uitems[3], "company_name") = PyStr(S_Acme)
    /\ uout = <<uitems[2]>>

(***************************************************************************)
(* Step 4 of main: enhance_companies_with_contact_pages.                   *)
(***************************************************************************)
\* number of companies handed to enhance_companies_with_contact_pages
MaxPageCompanies == 2

\* a plausible slip: what the page gives replaces what is known
page_update_overwrite(old, extracted) ==
    IF Truthy(extracted) THEN extracted ELSE old

\* if extracted_email and not company_email: company[..] = extracted_email
\* (and the same for the phone)
page_update(old, extracted) ==
    IF Truthy(extracted) /\ ~Truthy(old) THEN extracted ELSE old

\* company[k] = v when v differs from what company.get(k) gives
UpdateKey(d, k, v) == IF v = Get(d, k) THEN d ELSE SetKey(d, k, v)

\* one iteration of the loop, given what scrape_contact_page and
\* extract_contact_info_with_llm give for the company
enhance_with_page(comp, page) ==
    IF ~Truthy(Get(comp, "company_contact_page")) THEN comp
    ELSE IF Truthy(Get(comp, "company_email")) /\ Truthy(Get(comp, "company_phone"))
         THEN comp
    ELSE IF ~page.content THEN comp
    ELSE UpdateKey(
            UpdateKey(comp, "company_email",
                      page_update(Get(comp, "company_email"), page.email)),
            "company_phone",
            page_update(Get(comp, "company_phone"), page.phone))

\* enhance_companies_with_contact_pages(companies)
enhance_companies_with_contact_pages(companies, pages) ==
    [i \in 1..Len(companies) |-> enhance_with_page(companies[i], pages[i])]

\* what scraping a page and extracting from it give: no content, or the
\* pair extract_contact_info_with_llm returns
PageOutcomes ==
    {[content |-> FALSE, email |-> PyNone, phone |-> PyNone]}
    \cup {[content |-> TRUE, email |-> e, phone |-> ph] :
             e \in {PyNone, PyStr(S_sales)}, ph \in {PyNone, PyStr(S_phone)}}

\* a row after step 3, by its contact page, email and phone
PageRow(page, email, phone) ==
    <<[k |-> "company_name", v |-> PyStr(S_Acme)],
      [k |-> "country", v |-> PyStr(S_CH)],
      [k |-> "ceo", v |-> PyStr(S_JDoe)],
      [k |-> "company_email", v |-> email],
      [k |-> "company_contact_page", v |-> page],
      [k |-> "company_phone", v |-> phone]>>

PageRows ==
    {PageRow(PyStr(U_kontakt), PyNone, PyNone),
     PageRow(PyStr(U_kontakt), PyStr(S_info), PyNone),
     PageRow(PyStr(U_kontakt), PyStr(<<>>), PyStr(S_swfphone)),
     PageRow(PyStr(U_kontakt), PyStr(S_info), PyStr(S_swfphone)),
     PageRow(PyNone, PyNone, PyNone)}

InitPages ==
    /\ gpc = "start"
    /\ gcompanies \in SeqsUpTo(PageRows, MaxPageCompanies)
    /\ gpages = <<>>
    /\ gout = <<>>
    /\ DiffIdle
    /\ PickIdle
    /\ ArgsIdle
    /\ ContactIdle
    /\ MainIdle
    /\ ExtractIdle
    /\ SearchIdle
    /\ RobustIdle
    /\ BatchIdle
    /\ ProviderIdle
    /\ UniqueIdle
    /\ SessionIdle

\* selected = await enhance_companies_with_contact_pages(selected)
EnhancePages ==
    /\ gpc = "start"
    /\ \E pages \in [1..Len(gcompanies) -> PageOutcomes] :
          /\ gpages' = pages
          /\ gout' = enhance_companies_with_contact_pages(gcompanies, pages)
    /\ gpc' = "done"
    /\ UNCHANGED <<gcompanies, argVars, diffVars, pickVars, contactVars,
                   mainVars, extractVars, searchVars, robustVars, batchVars,
                   providerVars, uniqueVars, sessionVars>>

NextPages == EnhancePages

SpecPages == InitPages /\ [][NextPages]_vars

(***************************************************************************)
(* Properties of enhance_companies_with_contact_pages.                     *)
(***************************************************************************)
\* the value is neither null nor the empty string
Filled(v) == v # PyNone /\ v # PyStr(<<>>)

\* C29: enhance_companies_with_contact_pages only fills gaps: it leaves a
\* non-empty company_email or company_phone unchanged, changes nothing for a
\* company without a contact page or with both email and phone, never
\* modifies any other field, and returns the same companies in the same
\* order.
C29_PagesOnlyFillGaps ==
    gpc = "done" =>
        /\ Len(gout) = Len(gcompanies)
        /\ \A i \in 1..Len(gout) :
              /\ \A f \in {"company_email", "company_phone"} :
                    Filled(FieldOf(gcompanies[i], f)) =>
                        FieldOf(gout[i], f) = FieldOf(gcompanies[i], f)
              /\ \A j \in 1..Len(gcompanies[i]) :
                    gcompanies[i][j].k \notin {"company_email", "company_phone"} =>
                        gout[i][j] = gcompanies[i][j]
              /\ [j \in 1..Len(gout[i]) |-> gout[i][j].k]
                     = [j \in 1..Len(gcompanies[i]) |-> gcompanies[i][j].k]
              /\ (\/ ~Filled(FieldOf(gcompanies[i], "company_contact_page"))
                  \/ /\ Filled(FieldOf(gcompanies[i], "company_email"))
                     /\ Filled(FieldOf(gcompanies[i], "company_phone"))) =>
                    gout[i] = gcompanies[i]

C29_Witness ==
    /\ gpc = "done"
    /\ Len(gcompanies) = 2
    /\ FieldOf(gcompanies[1], "company_email") = PyStr(S_info)
    /\ FieldOf(gcompanies[1], "company_phone") = PyNone
    /\ gpages[1] = [content |-> TRUE, email |-> PyStr(S_sales), phone |-> PyStr(S_phone)]
    /\ FieldOf(gout[1], "company_email") = PyStr(S_info)
    /\ FieldOf(gout[1], "company_phone") = PyStr(S_phone)
    /\ FieldOf(gcompanies[2], "company_contact_page") = PyNone
    /\ gpages[2].content
    /\ gout[2] = gcompanies[2]

(***************************************************************************)
(* The contact page of the returned records.                               *)
(***************************************************************************)
\* C30 as stated: for both query strategies, a non-null
\* company_contact_page in the returned record is never a blocklisted URL,
\* whatever the LLM replies.
C30_ContactPageNeverBlocked ==
    (xpc = "done" /\ profile \in {"contact", "composite"}) =>
        (FieldOf(xrecord, "company_contact_page") # PyNone =>
            /\ FieldOf(xrecord, "company_contact_page").t = "str"
            /\ ~MatchesBlocklist(FieldOf(xrecord, "company_contact_page").s))

\* C30: a non-null company_contact_page that the Contact Page Picker
\* supplied (always in query_contact and so in query_single_then_merge, in
\* query_composite when the LLM gave no non-empty page) is never a
\* blocklisted URL, whatever the LLM replies.
C30_PickedContactPageNeverBlocked ==
    (xpc = "done" /\ profile \in {"contact", "composite"}) =>
        ((/\ FieldOf(xrecord, "company_contact_page") # PyNone
          /\ (profile = "contact"
              \/ ~NonEmptyStr(Parsed("company_contact_page")))) =>
            /\ FieldOf(xrecord, "company_contact_page").t = "str"
            /\ ~MatchesBlocklist(FieldOf(xrecord, "company_contact_page").s))

C30_Witness ==
    /\ xpc = "done"
    /\ profile = "composite"
    /\ Len(xitems) = 2
    /\ xitems[1].link = U_LinkedIn
    /\ Parsed("company_contact_page") = PyNone
    /\ Parsed("ceo") = PyStr(S_JaneDoe)
    /\ FieldOf(xrecord, "company_contact_page") = PyStr(U_home)

(***************************************************************************)
(* Several lookups in one process.  The only thing the modules keep        *)
(* between calls is the client that the lru_cache of _get_client holds.    *)
(***************************************************************************)
\* number of lookups in one process
MaxLookups == 3

\* a plausible slip: the call made with a client that was just built fails
chat_once_freshFails(cache, reply) ==
    IF cache = "empty" THEN RaiseReply ELSE reply

\* chat_once: client = _get_client() builds the client on the first call
\* and takes it from the cache afterwards; the provider's response does not
\* depend on which of the two happened
chat_once(cache, reply) == reply

\* the provider's responses to the chat_once calls of a lookup (contact,
\* fallback, management, composite): all fail, or each gets its document
SessionReplies ==
    {[c |-> RaiseReply, f |-> RaiseReply, m |-> RaiseReply, x |-> RaiseReply],
     [c |-> TextReply(<<"{\"company_email\": \"info@acme.ch\", \"company_phone\": null}">>),
      f |-> NoReply,
      m |-> TextReply(<<"{\"ceo\": \"J. Doe\", \"co_founder\": \"Jane Doe\"}">>),
      x |-> TextReply(<<"{\"company_name\": \"\", \"ceo\": \"Jane Doe\", \"company_contact_page\": \"https://acme.ch/Contact\"}">>)]}

\* the search provider's responses to the requests of a lookup
SessionBodies ==
    {[kind |-> "error", items |-> <<>>],
     [kind |-> "object",
      items |-> <<[title |-> T_Kontakt, snippet |-> S_snippet, link |-> U_kontakt]>>]}

\* query_single_then_merge in a process whose client cache is cache: the
\* first chat_once call may build the client, the later ones find it
session_single(cache, comp, ctry, body, rs) ==
    query_single_then_merge_outcome(comp, ctry, body, chat_once(cache, rs.c),
                                    chat_once("filled", rs.f),
                                    chat_once("filled", rs.m)).ret

\* query_composite in a process whose client cache is cache
session_composite(cache, comp, ctry, body, rs) ==
    query_composite_outcome(comp, ctry, body, chat_once(cache, rs.x)).ret

InitSession ==
    /\ client = "empty"
    /\ lookups = <<>>
    /\ DiffIdle
    /\ PickIdle
    /\ ArgsIdle
    /\ ContactIdle
    /\ MainIdle
    /\ ExtractIdle
    /\ SearchIdle
    /\ RobustIdle
    /\ BatchIdle
    /\ ProviderIdle
    /\ UniqueIdle
    /\ PageIdle

\* one more call of query_single_then_merge
SessionSingle ==
    /\ client # "off"
    /\ Len(lookups) < MaxLookups
    /\ \E comp \in ExtractCompanies, body \in SessionBodies, rs \in SessionReplies :
          lookups' = Append(lookups,
                            [op |-> "query_single_then_merge", company |-> comp,
                             country |-> PyStr(S_CH), body |-> body, replies |-> rs,
                             record |-> session_single(client, comp, PyStr(S_CH),
                                                       body, rs)])
    /\ client' = "filled"
    /\ UNCHANGED <<argVars, diffVars, pickVars, contactVars, mainVars,
                   extractVars, searchVars, robustVars, batchVars, providerVars,
                   uniqueVars, pageVars>>

\* one more call of query_composite
SessionComposite ==
    /\ client # "off"
    /\ Len(lookups) < MaxLookups
    /\ \E comp \in ExtractCompanies, body \in SessionBodies, rs \in SessionReplies :
          lookups' = Append(lookups,
                            [op |-> "query_composite", company |-> comp,
                             country |-> PyStr(S_CH), body |-> body, replies |-> rs,
                             record |-> session_composite(client, comp, PyStr(S_CH),
                                                          body, rs)])
    /\ client' = "filled"
    /\ UNCHANGED <<argVars, diffVars, pickVars, contactVars, mainVars,
                   extractVars, searchVars, robustVars, batchVars, providerVars,
                   uniqueVars, pageVars>>

NextSession == SessionSingle \/ SessionComposite

SpecSession == InitSession /\ [][NextSession]_vars

====
